---- MODULE Spec2Model ----
(***************************************************************************)
(* MSAnalyzer: the two decoders of src/parser.py (MassSpecParser), modelled *)
(* as state machines.                                                       *)
(*                                                                          *)
(*   parse_ascii  one step per line of the file, then the conversion of     *)
(*                the collected rows into the returned mapping.             *)
(*   parse_cdf    open, variable lookup, one step per scan, close, return.  *)
(*                                                                          *)
(* Text is modelled character by character: a line is a sequence of         *)
(* one-character strings, so that strip(), the three regular expressions,   *)
(* re.split, int() and float() are computed the way the code computes them. *)
(* Python ints are unbounded: an int is kept as its canonical decimal digit *)
(* sequence.  A float is kept as an integer number of thousandths (the      *)
(* inputs drawn below carry at most three decimals).                        *)
(***************************************************************************)
EXTENDS Integers, Sequences, FiniteSets, TLC

(***************************************************************************)
(* Bounds of the model.                                                     *)
(***************************************************************************)
MaxLines == 6
MaxOther == 2
MaxCoreLines == 8
MaxScans == 2
MaxOffset == 2
MaxCount == 2
MaxPoints == 3

(***************************************************************************)
(* Optional values: None, or Some(v) holding v.                             *)
(***************************************************************************)
None == <<>>
Some(v) == <<v>>
Val(o) == o[1]

(***************************************************************************)
(* Characters.                                                              *)
(***************************************************************************)
Digits == {"0", "1", "2", "3", "4", "5", "6", "7", "8", "9"}
DigitVal(c) ==
    CASE c = "0" -> 0 [] c = "1" -> 1 [] c = "2" -> 2 [] c = "3" -> 3
      [] c = "4" -> 4 [] c = "5" -> 5 [] c = "6" -> 6 [] c = "7" -> 7
      [] c = "8" -> 8 [] c = "9" -> 9
IsSpace(c) == c \in {" ", "\t"}
UpperCase == <<"A", "B", "C", "D", "E", "F", "G", "H", "I", "J", "K", "L", "M",
               "N", "O", "P", "Q", "R", "S", "T", "U", "V", "W", "X", "Y", "Z">>
LowerCase == <<"a", "b", "c", "d", "e", "f", "g", "h", "i", "j", "k", "l", "m",
               "n", "o", "p", "q", "r", "s", "t", "u", "v", "w", "x", "y", "z">>
\* re.IGNORECASE compares characters without regard to case
Lower(c) ==
    IF \E ix \in 1..Len(UpperCase) : UpperCase[ix] = c
    THEN LowerCase[CHOOSE ix \in 1..Len(UpperCase) : UpperCase[ix] = c]
    ELSE c

Drop(s, n) == SubSeq(s, n + 1, Len(s))

RECURSIVE DigitRun(_)
\* the longest prefix of s made of digits (a greedy \d+ or [0-9]*)
DigitRun(s) ==
    IF s # <<>> /\ Head(s) \in Digits THEN <<Head(s)>> \o DigitRun(Tail(s)) ELSE <<>>

RECURSIVE SpaceRun(_)
\* the longest prefix of s made of whitespace (a greedy \s+)
SpaceRun(s) ==
    IF s # <<>> /\ IsSpace(Head(s)) THEN <<Head(s)>> \o SpaceRun(Tail(s)) ELSE <<>>

RECURSIVE WordRun(_)
\* the longest prefix of s made of non-whitespace
WordRun(s) ==
    IF s # <<>> /\ ~IsSpace(Head(s)) THEN <<Head(s)>> \o WordRun(Tail(s)) ELSE <<>>

RECURSIVE RStrip(_)
RStrip(s) ==
    IF s # <<>> /\ IsSpace(s[Len(s)]) THEN RStrip(SubSeq(s, 1, Len(s) - 1)) ELSE s

\* str.strip()
Strip(s) == RStrip(Drop(s, Len(SpaceRun(s))))

RECURSIVE Split(_)
\* re.split(r"\s+", line) of a stripped, non-empty line
Split(s) ==
    IF s = <<>> THEN <<>>
    ELSE LET tok == WordRun(s)
             rest == Drop(s, Len(tok))
         IN  <<tok>> \o Split(Drop(rest, Len(SpaceRun(rest))))

\* a pattern's literal prefix, matched at the start of the line without regard to case
MatchPrefix(s, lit) ==
    /\ Len(s) >= Len(lit)
    /\ \A ix \in 1..Len(lit) : Lower(s[ix]) = Lower(lit[ix])

(***************************************************************************)
(* int(): the canonical digit sequence of a digit run (unbounded).          *)
(***************************************************************************)
RECURSIVE PyInt(_)
PyInt(d) == IF Len(d) > 1 /\ Head(d) = "0" THEN PyInt(Tail(d)) ELSE d

RECURSIVE LexLe(_, _)
LexLe(a, b) ==
    IF a = <<>> THEN TRUE
    ELSE IF DigitVal(Head(a)) # DigitVal(Head(b)) THEN DigitVal(Head(a)) < DigitVal(Head(b))
    ELSE LexLe(Tail(a), Tail(b))

\* a <= b on canonical digit sequences
IntLe(a, b) == Len(a) < Len(b) \/ (Len(a) = Len(b) /\ LexLe(a, b))

\* the largest value of a 64-bit signed integer, 2^63 - 1
Int64Max == <<"9", "2", "2", "3", "3", "7", "2", "0", "3", "6",
              "8", "5", "4", "7", "7", "5", "8", "0", "7">>

(***************************************************************************)
(* float(): thousandths, or None where float() raises ValueError.  Models   *)
(* the decimal forms [+-]ddd, [+-]ddd.ddd, [+-].ddd and [+-]ddd. ; the      *)
(* exponent, inf/nan and underscore forms are not among the inputs drawn.   *)
(***************************************************************************)
RECURSIVE NatOf(_, _)
NatOf(d, acc) == IF d = <<>> THEN acc ELSE NatOf(Tail(d), acc * 10 + DigitVal(Head(d)))

FracDigit(d, ix) == IF ix <= Len(d) THEN DigitVal(d[ix]) ELSE 0
Thousandths(d1, d2) ==
    NatOf(d1, 0) * 1000 + FracDigit(d2, 1) * 100 + FracDigit(d2, 2) * 10 + FracDigit(d2, 3)

PyFloat(tok) ==
    LET neg == tok # <<>> /\ Head(tok) = "-"
        body == IF tok # <<>> /\ Head(tok) \in {"-", "+"} THEN Tail(tok) ELSE tok
        d1 == DigitRun(body)
        after1 == Drop(body, Len(d1))
        dot == after1 # <<>> /\ Head(after1) = "."
        d2 == IF dot THEN DigitRun(Tail(after1)) ELSE <<>>
        rest == IF dot THEN Drop(after1, 1 + Len(d2)) ELSE after1
    IN  IF rest = <<>> /\ (d1 # <<>> \/ d2 # <<>>)
        THEN Some((IF neg THEN -1 ELSE 1) * Thousandths(d1, d2))
        ELSE None

(***************************************************************************)
(* The regular expressions of MassSpecParser.                               *)
(***************************************************************************)
W_FUNCTION == <<"F", "U", "N", "C", "T", "I", "O", "N">>
W_Scan == <<"S", "c", "a", "n">>
W_RetentionTime == <<"R", "e", "t", "e", "n", "t", "i", "o", "n", " ", "T", "i", "m", "e">>

\* literal \s+ (\d+): group 1, or None when the pattern does not match
MatchNumbered(line, lit) ==
    IF ~MatchPrefix(line, lit) THEN None
    ELSE LET rest == Drop(line, Len(lit))
             ws == SpaceRun(rest)
             d == DigitRun(Drop(rest, Len(ws)))
         IN  IF ws # <<>> /\ d # <<>> THEN Some(d) ELSE None

\* _FUNC_RE = ^FUNCTION\s+(\d+), IGNORECASE
FUNC_RE(line) == MatchNumbered(line, W_FUNCTION)

\* _SCAN_RE = ^Scan\s+(\d+), IGNORECASE
SCAN_RE(line) == MatchNumbered(line, W_Scan)

\* _RT_RE = ^Retention Time\s+([0-9]*\.?[0-9]+), IGNORECASE
RT_RE(line) ==
    IF ~MatchPrefix(line, W_RetentionTime) THEN None
    ELSE LET rest == Drop(line, Len(W_RetentionTime))
             ws == SpaceRun(rest)
             r == Drop(rest, Len(ws))
             d1 == DigitRun(r)
             after1 == Drop(r, Len(d1))
             d2 == IF after1 # <<>> /\ Head(after1) = "." THEN DigitRun(Tail(after1)) ELSE <<>>
         IN  IF ws = <<>> THEN None
             ELSE IF d2 # <<>> THEN Some(d1 \o <<".">> \o d2)
             ELSE IF d1 # <<>> THEN Some(d1)
             ELSE None

(***************************************************************************)
(* Paths and labels.                                                        *)
(***************************************************************************)
RECURSIVE LastIndexOf(_, _)
\* the last position of character c in s, 0 when absent
LastIndexOf(s, c) ==
    IF s = <<>> THEN 0
    ELSE IF s[Len(s)] = c THEN Len(s)
    ELSE LastIndexOf(SubSeq(s, 1, Len(s) - 1), c)

\* os.path.basename
PathBasename(p) == Drop(p, LastIndexOf(p, "/"))

\* os.path.splitext(...)[0]: cut at the last dot, unless only dots precede it
SplitExtRoot(name) ==
    LET k == LastIndexOf(name, ".")
    IN  IF k > 1 /\ \E ix \in 1..(k - 1) : name[ix] # "."
        THEN SubSeq(name, 1, k - 1)
        ELSE name

\* (mutant) the extension stays in the name: no splitext
BasenameKeepsExtension(p) == PathBasename(p)

\* os.path.splitext(os.path.basename(path))[0]
Basename(p) == SplitExtRoot(PathBasename(p))

W_Function_ == <<"_", "F", "u", "n", "c", "t", "i", "o", "n", "_">>

\* f"{basename}_Function_{n}"
Label(base, n) == base \o W_Function_ \o n

(***************************************************************************)
(* State.  A call of either decoder has path, pc, result and error;         *)
(* parse_ascii has the line loop's variables and parse_cdf the dataset's.   *)
(***************************************************************************)
VARIABLES
    path,               \* the path argument of the call
    pc,                 \* parse_ascii: "read" (in the line loop); parse_cdf: "open", "lookup",
                        \* "scan"; both: "done" (returned), "raised"
    nread,              \* number of lines consumed so far
    nother,             \* how many of them were drawn from OtherLines
    budget,             \* the size of the file: at most .lines lines, .other of them unusual
    line,               \* raw_line.strip() of the line consumed last
    current_function,   \* Optional[int]
    current_scan,       \* Optional[int]
    current_rt,         \* Optional[float]
    functions,          \* Dict[str, List[Tuple[int, float, float, float]]]
    result,             \* the returned Dict[str, DataFrame]; a DataFrame is a sequence of rows
    error,              \* the exception the call raised
    \* parse_cdf
    env,                \* which module's parse_cdf runs, and which netCDF readers it imported
    file,               \* the CDF file: its variables, and those that cannot be read
    ds,                 \* the dataset handle: "none", "open" or "closed"
    arrays,             \* scan_index, point_count, mass_values, intensity_values, rt_vals
    i,                  \* the scan loop's index
    rows,               \* the rows built so far
    \* history of the input consumed so far (not program state; never read by the decoder)
    h_gate,             \* which headers have been read, and whether a pair line came too early
    h_acc,              \* per label: the pair lines accepted under it
    h_shape,            \* how far the input matches FUNCTION, Scan, Retention Time, pair lines
    h_pair,             \* the scans declared, while every Scan header came with its own
                        \* Retention Time header and no scan number was declared twice
    h_sort,             \* the last Scan header of each label, while they came in order
    \* the caller: MSAnalyzerGUI (msanalyzer_gui.py) and MSAnalyzerApp (msanalyzer.py)
    selected_raw_files, \* self._selected_raw_files: the paths awaiting parsing
    output_directory,   \* self.output_directory: Optional[str]
    loaded_data,        \* self.loaded_data: Dict[str, DataFrame], the long-lived registry
    messages,           \* the messages list of the running _parse_selected_files
    csv_dir,            \* the files of <output_directory>/csv: file name -> text lines
    csv_selected,       \* the files chosen in the dialogs of _load_csv_files so far
    gpc,                \* the handler's position: "idle", "loop", "call", "finished", "warned"
    pos,                \* how many of the selected files the loop has dealt with
    \* history of the batch (never read by the program)
    h_latest,           \* label -> the table of the most recent successful parse giving it
    h_outcome,          \* per file dealt with: "ok", "failed" or "unsupported"
    h_exported,         \* label -> the table whose export wrote the label's csv file
    \* decoder calls run as concurrent tasks
    running,            \* the task whose frame the decoder variables hold
    parked,             \* task -> the saved frame of a task that is not running
    merged,             \* the tasks whose result the single writer has merged, in order
    switches,           \* how many times the running task has changed
    \* the other tabs of the window
    dropdown,           \* the selection of each function combobox ('' when none)
    fr_result,          \* self.fr_result_var: what the last Find or Replace reported
    imported            \* the last _load_csv_files: the files chosen and the names skipped

decoderVars == <<path, budget, pc, nread, nother, line, current_function, current_scan, current_rt,
                 functions, result, error>>
historyVars == <<h_gate, h_acc, h_shape, h_pair, h_sort>>
asciiVars == <<decoderVars, historyVars>>
cdfVars == <<env, file, ds, arrays, i, rows>>
guiVars == <<selected_raw_files, output_directory, loaded_data, messages, csv_dir, csv_selected, gpc, pos,
             h_latest, h_outcome, h_exported>>
taskVars == <<running, parked, merged, switches>>
deskVars == <<dropdown, fr_result, imported>>
callerVars == <<guiVars, taskVars, deskVars>>
vars == <<asciiVars, cdfVars, callerVars>>

\* exceptions: the type, whether the message names the file, and the cause it reports
NoError == [type |-> "none", names_file |-> FALSE, cause |-> "none"]
Exception(type, names_file, cause) == [type |-> type, names_file |-> names_file, cause |-> cause]

NoEnv == [impl |-> "none", netCDF4 |-> FALSE, netcdf_file |-> FALSE]
NoFile == [vars |-> <<>>, unreadable |-> {}]
NoArrays == [scan_index |-> <<>>, point_count |-> <<>>, mass_values |-> <<>>,
             intensity_values |-> <<>>, rt_vals |-> <<>>]

(***************************************************************************)
(* The inputs drawn: paths and raw lines of an ASCII dump.                  *)
(***************************************************************************)
SP == <<" ">>
W_run1 == <<"r", "u", "n", "1">>
AsciiPaths == { <<"/", "d", ".", "v", "/">> \o W_run1 \o <<".", "t", "x", "t">> }

T_100_0 == <<"1", "0", "0", ".", "0">>
T_250_0 == <<"2", "5", "0", ".", "0">>
T_101_5 == <<"1", "0", "1", ".", "5">>
T_300_0 == <<"3", "0", "0", ".", "0">>
T_huge == <<"9", "9", "9", "9", "9", "9", "9", "9", "9", "9",
            "9", "9", "9", "9", "9", "9", "9", "9", "9", "9">>

L_blank == SP
L_function1 == W_FUNCTION \o SP \o <<"1">>
L_function2 == <<"f", "u", "n", "c", "t", "i", "o", "n">> \o SP \o SP \o <<"0", "2">>
L_scan1 == W_Scan \o SP \o <<"1">>
L_scan2 == W_Scan \o SP \o <<"2">>
L_scanHuge == W_Scan \o SP \o T_huge
L_rt050 == W_RetentionTime \o SP \o <<"0", ".", "5", "0">>
L_rt07 == W_RetentionTime \o SP \o <<".", "7">>
L_rtBad == W_RetentionTime \o SP \o <<"a", "b", "c">>
L_data1 == T_100_0 \o SP \o T_250_0
L_data2 == SP \o T_101_5 \o <<"\t">> \o T_300_0 \o SP
L_garbage == <<"a", "b", "c">>
L_badNumber == T_100_0 \o SP \o <<"x">>
L_threeTokens == <<"1">> \o SP \o <<"2">> \o SP \o <<"3">>

\* the lines of a well-formed dump, and the lines a file holds at most MaxOther of;
\* a file of well-formed lines alone is followed further, to MaxCoreLines lines
Budgets == {[lines |-> MaxLines, other |-> MaxOther], [lines |-> MaxCoreLines, other |-> 0]}
CoreLines == {L_function1, L_function2, L_scan1, L_scan2, L_rt050, L_rt07, L_data1}
OtherLines == {L_blank, L_garbage, L_badNumber, L_threeTokens, L_rtBad, L_scanHuge, L_data2}

(***************************************************************************)
(* parse_ascii.                                                             *)
(***************************************************************************)
\* (mutant) the label is made once, from the file's first function
KeyOfFirstFunction == Label(Basename(path), <<"1">>)

\* key = f"{basename}_Function_{current_function}"
Key == Label(Basename(path), Val(current_function))

\* dict.setdefault(key, [])
SetDefault(f, key) == IF key \in DOMAIN f THEN f ELSE f @@ (key :> <<>>)

\* (mutant) the row is put in front: insert(0, row)
AppendRowFront(f, key, row) ==
    LET g == SetDefault(f, key) IN [g EXCEPT ![key] = <<row>> \o @]

\* (mutant) a row equal to one already in the list is not added again
AppendRowUnique(f, key, row) ==
    LET g == SetDefault(f, key)
    IN  IF \E ix \in 1..Len(g[key]) : g[key][ix] = row THEN g
        ELSE [g EXCEPT ![key] = Append(@, row)]

\* functions.setdefault(key, []).append(row)
AppendRow(f, key, row) ==
    LET g == SetDefault(f, key) IN [g EXCEPT ![key] = Append(@, row)]

\* the test that gates a data line
Ready == current_function # None /\ current_scan # None /\ current_rt # None

\* (mutant) the header forgets to clear current_scan and current_rt
OnFunctionHeaderKeeps(m_func) ==
    /\ current_function' = Some(PyInt(Val(m_func)))
    /\ UNCHANGED <<current_scan, current_rt>>
    /\ functions' = SetDefault(functions, Label(Basename(path), PyInt(Val(m_func))))

\* (mutant) the header starts the label's list afresh: functions[key] = []
OnFunctionHeaderResets(m_func) ==
    /\ current_function' = Some(PyInt(Val(m_func)))
    /\ current_scan' = None
    /\ current_rt' = None
    /\ functions' = (Label(Basename(path), PyInt(Val(m_func))) :> <<>>) @@ functions

\* (mutant) a header that repeats the current function number is passed over
OnFunctionHeaderSkipsRepeat(m_func) ==
    IF current_function = Some(PyInt(Val(m_func)))
    THEN UNCHANGED <<current_function, current_scan, current_rt, functions>>
    ELSE /\ current_function' = Some(PyInt(Val(m_func)))
         /\ current_scan' = None
         /\ current_rt' = None
         /\ functions' = SetDefault(functions, Label(Basename(path), PyInt(Val(m_func))))

\* a FUNCTION header: m_func is the match's group 1
OnFunctionHeader(m_func) ==
    /\ current_function' = Some(PyInt(Val(m_func)))
    /\ current_scan' = None
    /\ current_rt' = None
    /\ functions' = SetDefault(functions, Label(Basename(path), PyInt(Val(m_func))))

\* (mutant) a Scan header is honoured only inside a function
OnScanHeaderNeedsFunction(m_scan) ==
    /\ current_scan' = IF current_function = None THEN current_scan ELSE Some(PyInt(Val(m_scan)))
    /\ UNCHANGED <<current_function, current_rt, functions>>

\* (mutant) a Scan header starts the scan afresh: the retention time is cleared with it
OnScanHeaderClearsRt(m_scan) ==
    /\ current_scan' = Some(PyInt(Val(m_scan)))
    /\ current_rt' = None
    /\ UNCHANGED <<current_function, functions>>

\* a Scan header
OnScanHeader(m_scan) ==
    /\ current_scan' = Some(PyInt(Val(m_scan)))
    /\ UNCHANGED <<current_function, current_rt, functions>>

\* (mutant) the header is honoured only while no retention time is set
OnRtHeaderKeepsFirst(m_rt) ==
    /\ current_rt' = IF current_rt = None THEN PyFloat(Val(m_rt)) ELSE current_rt
    /\ UNCHANGED <<current_function, current_scan, functions>>

\* a Retention Time header; float() of the group, None on ValueError
OnRtHeader(m_rt) ==
    /\ current_rt' = PyFloat(Val(m_rt))
    /\ UNCHANGED <<current_function, current_scan, functions>>

\* (mutant) the first two tokens of a longer line are taken: len(parts) >= 2
OnDataLineFirstTwo(l) ==
    /\ UNCHANGED <<current_function, current_scan, current_rt>>
    /\ IF Ready
       THEN LET parts == Split(l)
            IN  IF Len(parts) >= 2 /\ PyFloat(parts[1]) # None /\ PyFloat(parts[2]) # None
                THEN functions' = AppendRow(functions, Key,
                                            <<Val(current_scan), Val(current_rt),
                                              Val(PyFloat(parts[1])), Val(PyFloat(parts[2]))>>)
                ELSE UNCHANGED functions
       ELSE UNCHANGED functions

\* any other non-empty line: a channel/intensity pair, or dropped
OnDataLine(l) ==
    /\ UNCHANGED <<current_function, current_scan, current_rt>>
    /\ IF Ready
       THEN LET parts == Split(l)
            IN  IF Len(parts) = 2 /\ PyFloat(parts[1]) # None /\ PyFloat(parts[2]) # None
                THEN functions' = AppendRow(functions, Key,
                                            <<Val(current_scan), Val(current_rt),
                                              Val(PyFloat(parts[1])), Val(PyFloat(parts[2]))>>)
                ELSE UNCHANGED functions
       ELSE UNCHANGED functions

\* one iteration of the line loop on the stripped line l
ProcessLine(l) ==
    IF l = <<>> THEN UNCHANGED <<current_function, current_scan, current_rt, functions>>
    ELSE IF FUNC_RE(l) # None THEN OnFunctionHeader(FUNC_RE(l))
    ELSE IF SCAN_RE(l) # None THEN OnScanHeader(SCAN_RE(l))
    ELSE IF RT_RE(l) # None THEN OnRtHeader(RT_RE(l))
    ELSE OnDataLine(l)

\* pd.DataFrame(rows, columns=[...])
DataFrame(rs) ==
    [ix \in 1..Len(rs) |->
        [Scan |-> rs[ix][1], RetentionTime |-> rs[ix][2],
         Channel |-> rs[ix][3], Intensity |-> rs[ix][4]]]

\* df["Scan"].astype(int) converts to 64-bit integers: it raises OverflowError
\* ("Python int too large to convert to C long") on a value that does not fit
AsTypeIntRaises(df) == \E ix \in 1..Len(df) : ~IntLe(df[ix].Scan, Int64Max)

\* (mutant) every key is kept: no "if not rows: continue"
KeptKeysAll(f) == DOMAIN f

\* the keys that survive "if not rows: continue"
KeptKeys(f) == {k \in DOMAIN f : f[k] # <<>>}

\* the conversion of the row lists into the returned mapping
BuildResult(f) == [k \in KeptKeys(f) |-> DataFrame(f[k])]

BuildRaises(f) == \E k \in KeptKeys(f) : AsTypeIntRaises(DataFrame(f[k]))

EmptyMapping == <<>>

(***************************************************************************)
(* The history variables: what the input consumed so far looked like,       *)
(* recorded from the lines themselves and not from the decoder's state.     *)
(***************************************************************************)
LineKind(l) ==
    IF l = <<>> THEN "blank"
    ELSE IF FUNC_RE(l) # None THEN "function"
    ELSE IF SCAN_RE(l) # None THEN "scan"
    ELSE IF RT_RE(l) # None THEN "rt"
    ELSE IF Len(Split(l)) = 2 /\ PyFloat(Split(l)[1]) # None /\ PyFloat(Split(l)[2]) # None
         THEN "pair"
    ELSE "junk"

\* the number a header line carries (0 for the other kinds)
HeaderNumber(l, kind) ==
    CASE kind = "function" -> PyInt(Val(FUNC_RE(l)))
      [] kind = "scan" -> PyInt(Val(SCAN_RE(l)))
      [] kind = "rt" -> Val(PyFloat(Val(RT_RE(l))))
      [] OTHER -> 0

\* h_gate: func - a FUNCTION header has been read; scan, rt - a Scan, a Retention Time
\* header has been read since the most recent FUNCTION header; early - a numeric pair
\* line was read when one of the three was missing
GateNext(kind) ==
    [func |-> (h_gate.func \/ kind = "function"),
     scan |-> IF kind = "function" THEN FALSE ELSE (h_gate.scan \/ kind = "scan"),
     rt |-> IF kind = "function" THEN FALSE ELSE (h_gate.rt \/ kind = "rt"),
     early |-> (h_gate.early \/ (kind = "pair" /\ ~(h_gate.func /\ h_gate.scan /\ h_gate.rt)))]

\* h_acc[label]: acc - the pair lines read under the label with all three headers seen, in
\* all occurrences of its FUNCTION header; prev - those read before the most recent occurrence
AccNext(kind, cur, new) ==
    CASE kind = "function" ->
            IF new \in DOMAIN h_acc
            THEN [h_acc EXCEPT ![new].prev = h_acc[new].acc]
            ELSE h_acc @@ (new :> [acc |-> 0, prev |-> 0])
      [] kind = "pair" /\ h_gate.func /\ h_gate.scan /\ h_gate.rt ->
            [h_acc EXCEPT ![cur].acc = @ + 1]
      [] OTHER -> h_acc

\* h_shape: at - "start", then "f" after the one FUNCTION header, "fs" / "fr" after the one
\* Scan / Retention Time header, "fsr" after both, "off" once the input is of another form;
\* k - the pair lines read in "fsr".  Blank lines are allowed anywhere.
ShapeNext(kind) ==
    LET at == h_shape.at
    IN  CASE kind = "blank" -> h_shape
          [] kind = "function" /\ at = "start" -> [h_shape EXCEPT !.at = "f"]
          [] kind = "scan" /\ at = "f" -> [h_shape EXCEPT !.at = "fs"]
          [] kind = "scan" /\ at = "fr" -> [h_shape EXCEPT !.at = "fsr"]
          [] kind = "rt" /\ at = "f" -> [h_shape EXCEPT !.at = "fr"]
          [] kind = "rt" /\ at = "fs" -> [h_shape EXCEPT !.at = "fsr"]
          [] kind = "pair" /\ at = "fsr" -> [h_shape EXCEPT !.k = @ + 1]
          [] OTHER -> [at |-> "off", k |-> 0]

\* h_pair: ok - so far every Scan header followed a FUNCTION header, was directly followed
\* (blank lines aside) by a Retention Time header, every Retention Time header directly
\* followed a Scan header, and no label had one scan number declared twice;
\* pending - the scan number of a Scan header still waiting for its Retention Time header;
\* decl[label] - the <<scan, rt>> declared so far.  Nothing is recorded once ok is lost.
PairOff == [ok |-> FALSE, pending |-> None, decl |-> EmptyMapping]
PairNext(kind, num, cur, new) ==
    IF ~h_pair.ok THEN h_pair
    ELSE CASE kind = "blank" -> h_pair
           [] kind = "function" /\ h_pair.pending = None ->
                [h_pair EXCEPT !.decl = IF new \in DOMAIN @ THEN @ ELSE @ @@ (new :> {})]
           [] kind = "scan" /\ h_gate.func /\ h_pair.pending = None
                /\ (\A d \in h_pair.decl[cur] : d[1] # num) ->
                [h_pair EXCEPT !.pending = Some(num)]
           [] kind = "rt" /\ h_pair.pending # None ->
                [h_pair EXCEPT !.pending = None,
                               !.decl[cur] = @ \cup {<<Val(h_pair.pending), num>>}]
           [] kind \in {"pair", "junk"} /\ h_pair.pending = None /\ (kind = "pair" => h_gate.func) ->
                h_pair
           [] OTHER -> PairOff

\* h_sort: ok - so far the Scan headers of each label carried non-decreasing numbers, in file
\* order; last[label] - the number of the label's last Scan header.
SortOff == [ok |-> FALSE, last |-> EmptyMapping]
SortNext(kind, num, cur) ==
    IF ~h_sort.ok THEN h_sort
    ELSE CASE kind = "scan" /\ h_gate.func ->
                IF cur \in DOMAIN h_sort.last /\ ~IntLe(h_sort.last[cur], num)
                THEN SortOff
                ELSE [h_sort EXCEPT !.last = (cur :> num) @@ @]
           [] OTHER -> h_sort

Record(kind, num, base) ==
    LET cur == Label(base, Val(current_function))
        new == Label(base, num)
    IN  /\ h_gate' = GateNext(kind)
        /\ h_acc' = AccNext(kind, cur, new)
        /\ h_shape' = ShapeNext(kind)
        /\ h_pair' = PairNext(kind, num, cur, new)
        /\ h_sort' = SortNext(kind, num, cur)

Observe(l) ==
    \E kind \in {LineKind(l)} :
        \E num \in {HeaderNumber(l, kind)}, base \in {Basename(path)} : Record(kind, num, base)

\* the five function comboboxes; none has a selection when the window is built
Comboboxes == {"plot", "export", "compare1", "compare2", "fr"}
NoDesk ==
    /\ dropdown = [cb \in Comboboxes |-> <<>>]
    /\ fr_result = [kind |-> "none", count |-> 0]
    /\ imported = [files |-> <<>>, skipped |-> <<>>]

\* no caller: a decoder is called on its own
NoCaller ==
    /\ NoDesk
    /\ selected_raw_files = <<>> /\ output_directory = None /\ loaded_data = <<>>
    /\ messages = <<>> /\ csv_dir = <<>> /\ csv_selected = <<>> /\ gpc = "idle" /\ pos = 0
    /\ h_latest = <<>> /\ h_outcome = <<>> /\ h_exported = <<>>
    /\ running = 0 /\ parked = <<>> /\ merged = <<>> /\ switches = 0

AsciiInit ==
    /\ NoCaller
    /\ path \in AsciiPaths
    /\ budget \in Budgets
    /\ pc = "read"
    /\ nread = 0
    /\ nother = 0
    /\ line = <<>>
    /\ current_function = None
    /\ current_scan = None
    /\ current_rt = None
    /\ functions = EmptyMapping
    /\ result = EmptyMapping
    /\ error = NoError
    /\ env = NoEnv /\ file = NoFile /\ ds = "none" /\ arrays = NoArrays /\ i = 0 /\ rows = <<>>
    /\ h_gate = [func |-> FALSE, scan |-> FALSE, rt |-> FALSE, early |-> FALSE]
    /\ h_acc = EmptyMapping
    /\ h_shape = [at |-> "start", k |-> 0]
    /\ h_pair = [ok |-> TRUE, pending |-> None, decl |-> EmptyMapping]
    /\ h_sort = [ok |-> TRUE, last |-> EmptyMapping]

\* for raw_line in fh: the body of the loop on one line of the file
LoopBody(raw_line) ==
    /\ \E l \in {Strip(raw_line)} :
          /\ line' = l
          /\ ProcessLine(l)
          /\ Observe(l)
    /\ nread' = nread + 1
    /\ UNCHANGED <<path, budget, pc, result, error>>

\* the file's next line is a header or a channel/intensity pair
ReadLine ==
    /\ pc = "read"
    /\ nread < budget.lines
    /\ \E raw_line \in CoreLines : LoopBody(raw_line)
    /\ UNCHANGED <<nother, cdfVars, callerVars>>

\* the file's next line is blank, malformed or unusual
ReadOtherLine ==
    /\ pc = "read"
    /\ nread < budget.lines
    /\ nother < budget.other
    /\ \E raw_line \in OtherLines : LoopBody(raw_line)
    /\ nother' = nother + 1
    /\ UNCHANGED <<cdfVars, callerVars>>

\* end of file: build the DataFrames and return, or raise
Finish ==
    /\ pc = "read"
    /\ IF BuildRaises(functions)
       THEN /\ pc' = "raised"
            /\ error' = Exception("OverflowError", FALSE, "Python int too large to convert to C long")
            /\ UNCHANGED result
       ELSE /\ pc' = "done"
            /\ result' = BuildResult(functions)
            /\ UNCHANGED error
    /\ UNCHANGED <<path, budget, nread, nother, line, current_function, current_scan, current_rt, functions>>
    /\ UNCHANGED <<historyVars, cdfVars, callerVars>>

AsciiNext == ReadLine \/ ReadOtherLine \/ Finish

SpecAscii == AsciiInit /\ [][AsciiNext]_vars

(***************************************************************************)
(* parse_ascii on a file whose lines are fixed beforehand: budget.text.     *)
(***************************************************************************)
MaxTextLines == 5

L_scan0 == W_Scan \o SP \o <<"0">>
L_data3 == T_101_5 \o SP \o T_300_0
TextLines == {L_function1, L_function2, L_scan0, L_scan1, L_rt050, L_data1, L_data3}

RECURSIVE TextsUpTo(_, _)
\* the files of at most n lines, each one of lines
TextsUpTo(lines, n) ==
    IF n = 0 THEN {<<>>}
    ELSE LET shorter == TextsUpTo(lines, n - 1)
         IN  shorter \cup {Append(t, l) : t \in shorter, l \in lines}

TextInit ==
    /\ NoCaller
    /\ path \in AsciiPaths
    /\ \E text \in TextsUpTo(TextLines, MaxTextLines) :
          budget = [lines |-> Len(text), other |-> 0, text |-> text]
    /\ pc = "read"
    /\ nread = 0
    /\ nother = 0
    /\ line = <<>>
    /\ current_function = None
    /\ current_scan = None
    /\ current_rt = None
    /\ functions = EmptyMapping
    /\ result = EmptyMapping
    /\ error = NoError
    /\ env = NoEnv /\ file = NoFile /\ ds = "none" /\ arrays = NoArrays /\ i = 0 /\ rows = <<>>
    /\ h_gate = [func |-> FALSE, scan |-> FALSE, rt |-> FALSE, early |-> FALSE]
    /\ h_acc = EmptyMapping
    /\ h_shape = [at |-> "start", k |-> 0]
    /\ h_pair = [ok |-> TRUE, pending |-> None, decl |-> EmptyMapping]
    /\ h_sort = [ok |-> TRUE, last |-> EmptyMapping]

\* the loop reads the file's next line
ReadTextLine ==
    /\ pc = "read"
    /\ nread < budget.lines
    /\ LoopBody(budget.text[nread + 1])
    /\ UNCHANGED <<nother, cdfVars, callerVars>>

\* the file is exhausted: the loop ends and the mapping is built
EndOfText ==
    /\ nread = budget.lines
    /\ Finish

TextNext == ReadTextLine \/ EndOfText

SpecText == TextInit /\ [][TextNext]_vars

(***************************************************************************)
(* parse_ascii on a file made of blocks: a FUNCTION header with its scans,  *)
(* the blocks of several functions following one another in any order.      *)
(***************************************************************************)
MaxBlocks == 3

Blocks ==
    { <<L_function1, L_scan1, L_rt050, L_data1>>,
      <<L_function2, L_scan1, L_rt050, L_data3>>,
      <<L_function1, L_scan0, L_rt050, L_data3>>,
      <<L_function2, L_scan0, L_rt050, L_data1, L_data3>>,
      <<L_function2>>,
      <<L_function1, L_data1>>,
      <<L_scan1, L_data3>> }

RECURSIVE BlockTexts(_)
\* the files of at most n blocks
BlockTexts(n) ==
    IF n = 0 THEN {<<>>}
    ELSE LET shorter == BlockTexts(n - 1)
         IN  shorter \cup {t \o b : t \in shorter, b \in Blocks}

BlocksInit ==
    /\ NoCaller
    /\ path \in AsciiPaths
    /\ \E text \in BlockTexts(MaxBlocks) :
          budget = [lines |-> Len(text), other |-> 0, text |-> text]
    /\ pc = "read"
    /\ nread = 0
    /\ nother = 0
    /\ line = <<>>
    /\ current_function = None
    /\ current_scan = None
    /\ current_rt = None
    /\ functions = EmptyMapping
    /\ result = EmptyMapping
    /\ error = NoError
    /\ env = NoEnv /\ file = NoFile /\ ds = "none" /\ arrays = NoArrays /\ i = 0 /\ rows = <<>>
    /\ h_gate = [func |-> FALSE, scan |-> FALSE, rt |-> FALSE, early |-> FALSE]
    /\ h_acc = EmptyMapping
    /\ h_shape = [at |-> "start", k |-> 0]
    /\ h_pair = [ok |-> TRUE, pending |-> None, decl |-> EmptyMapping]
    /\ h_sort = [ok |-> TRUE, last |-> EmptyMapping]

SpecBlocks == BlocksInit /\ [][TextNext]_vars

(***************************************************************************)
(* parse_cdf.  The inputs drawn: the module whose parse_cdf runs and the    *)
(* readers it could import, and the CDF file: its variables by name, each   *)
(* an array (a sequence, Python's arr[k] being the sequence's element k+1), *)
(* and the variables whose data cannot be read.                             *)
(***************************************************************************)
MassNames == <<"mass_values", "mass_range", "mz">>
IntensityNames == <<"intensity_values", "intensity">>
RtNames == <<"scan_acquisition_time", "scan_time", "retention_time">>
Primary == {"scan_index", "point_count", "mass_values", "intensity_values",
            "scan_acquisition_time"}

\* the sets of variable names a file may hold: all the primary names, one required field
\* missing altogether, and the alternate names
NameSets ==
    { Primary,
      Primary \ {"scan_index"},
      Primary \ {"point_count"},
      Primary \ {"mass_values"},
      Primary \ {"intensity_values"},
      Primary \ {"scan_acquisition_time"},
      (Primary \ {"mass_values"}) \cup {"mass_range", "mz"},
      (Primary \ {"mass_values"}) \cup {"mz"},
      (Primary \ {"intensity_values"}) \cup {"intensity"},
      (Primary \ {"scan_acquisition_time"}) \cup {"scan_time", "retention_time"},
      (Primary \ {"scan_acquisition_time"}) \cup {"retention_time"},
      Primary \cup {"mass_range", "mz", "intensity", "scan_time", "retention_time"} }

\* the data of the value arrays tell the variable they come from
Base(name) ==
    CASE name = "mass_values" -> 100 [] name = "mass_range" -> 200 [] name = "mz" -> 300
      [] name = "intensity_values" -> 500 [] name = "intensity" -> 600
      [] name = "scan_acquisition_time" -> 10 [] name = "scan_time" -> 20
      [] name = "retention_time" -> 30

Ramp(name, n) == [k \in 1..n |-> Base(name) + k - 1]

\* what varies between files: the offsets, the lengths (possibly one fewer than the scans),
\* the number of intensities (possibly one fewer than the channels), the retention times
PayloadsOf(maxScans) ==
    UNION { { [scan_index |-> si, point_count |-> pcnt, n_mass |-> MaxPoints,
               n_intensity |-> ni, n_rt |-> nr] :
                si \in [1..n -> 0..MaxOffset],
                pcnt \in [1..n -> 0..MaxCount] \cup
                         (IF n > 0 THEN [1..(n - 1) -> 0..MaxCount] ELSE {}),
                ni \in {MaxPoints - 1, MaxPoints},
                nr \in {n} \cup (IF n > 0 THEN {n - 1} ELSE {}) } : n \in 0..maxScans }
Payloads == PayloadsOf(MaxScans)
SmallPayloads == PayloadsOf(1)

ArrayOf(name, payload) ==
    CASE name = "scan_index" -> payload.scan_index
      [] name = "point_count" -> payload.point_count
      [] name \in {"mass_values", "mass_range", "mz"} -> Ramp(name, payload.n_mass)
      [] name \in {"intensity_values", "intensity"} -> Ramp(name, payload.n_intensity)
      [] OTHER -> Ramp(name, payload.n_rt)

CdfFile(names, payload, unreadable) ==
    [vars |-> [name \in names |-> ArrayOf(name, payload)], unreadable |-> unreadable]

CdfFiles ==
    {CdfFile(Primary, p, {}) : p \in Payloads}
    \cup {CdfFile(ns, p, {}) : ns \in NameSets, p \in SmallPayloads}
    \cup {CdfFile(Primary, p, {u}) : p \in SmallPayloads, u \in {"point_count", "intensity_values"}}

SmallCdfFiles ==
    {CdfFile(ns, p, {}) : ns \in {Primary, Primary \ {"scan_index"}}, p \in SmallPayloads}

ParserEnv == [impl |-> "parser", netCDF4 |-> TRUE, netcdf_file |-> FALSE]
OtherEnvs ==
    { [impl |-> "parser", netCDF4 |-> FALSE, netcdf_file |-> TRUE],
      [impl |-> "parser", netCDF4 |-> FALSE, netcdf_file |-> FALSE],
      [impl |-> "msanalyzer", netCDF4 |-> TRUE, netcdf_file |-> FALSE],
      [impl |-> "msanalyzer", netCDF4 |-> FALSE, netcdf_file |-> TRUE] }

W_scan7 == <<"s", "c", "a", "n", "7">>
CdfPaths == { <<"/", "d", "/">> \o W_scan7 \o <<".", "c", "d", "f">> }

\* _load_dataset (parser.py) and the import guard of msanalyzer.py: the reader that opens
\* the file, "none" when the call raises ImportError instead
Reader(e) ==
    IF e.impl = "parser"
    THEN IF e.netCDF4 THEN "netCDF4" ELSE IF e.netcdf_file THEN "netcdf_file" ELSE "none"
    ELSE IF e.netCDF4 THEN "netCDF4" ELSE "none"

\* ds.variables[name][:] : the array, or the exception it raises
Fetch(name) ==
    IF name \notin DOMAIN file.vars THEN [ok |-> FALSE, cause |-> "KeyError", value |-> <<>>]
    ELSE IF name \in file.unreadable THEN [ok |-> FALSE, cause |-> "RuntimeError", value |-> <<>>]
    ELSE [ok |-> TRUE, cause |-> "none", value |-> file.vars[name]]

\* (mutant) a field none of whose names is there reads as an empty array
FetchFirstLenient(names) ==
    IF \E k \in 1..Len(names) : names[k] \in DOMAIN file.vars
    THEN Fetch(names[CHOOSE k \in 1..Len(names) :
                        /\ names[k] \in DOMAIN file.vars
                        /\ \A j \in 1..(k - 1) : names[j] \notin DOMAIN file.vars])
    ELSE [ok |-> TRUE, cause |-> "none", value |-> <<>>]

\* (mutant) the chain is tried from its last name to its first
FetchLast(names) ==
    IF \E k \in 1..Len(names) : names[k] \in DOMAIN file.vars
    THEN Fetch(names[CHOOSE k \in 1..Len(names) :
                        /\ names[k] \in DOMAIN file.vars
                        /\ \A j \in (k + 1)..Len(names) : names[j] \notin DOMAIN file.vars])
    ELSE [ok |-> FALSE, cause |-> "KeyError", value |-> <<>>]

\* the if / elif chain over a field's accepted names: the first name in ds.variables is
\* read; KeyError when none is there
FetchFirst(names) ==
    IF \E k \in 1..Len(names) : names[k] \in DOMAIN file.vars
    THEN Fetch(names[CHOOSE k \in 1..Len(names) :
                        /\ names[k] \in DOMAIN file.vars
                        /\ \A j \in 1..(k - 1) : names[j] \notin DOMAIN file.vars])
    ELSE [ok |-> FALSE, cause |-> "KeyError", value |-> <<>>]

\* the five reads of the try block, in order
Lookups ==
    <<Fetch("scan_index"), Fetch("point_count"), FetchFirst(MassNames),
      FetchFirst(IntensityNames), FetchFirst(RtNames)>>

LookupFails == \E k \in 1..Len(Lookups) : ~Lookups[k].ok
FirstFailure == Lookups[CHOOSE k \in 1..Len(Lookups) :
                           ~Lookups[k].ok /\ \A j \in 1..(k - 1) : Lookups[j].ok]

\* raise ValueError(f"CDF parsing error: {exc}") in parser.py,
\* raise ValueError(f"Failed to parse CDF file {path}: {exc}") in msanalyzer.py
WrappedError(cause) == Exception("ValueError", env.impl = "msanalyzer", cause)

\* (mutant) the slice starts one position late: arr[a+1:b]
SliceOffByOne(arr, a, b) ==
    LET lo == IF a + 1 > Len(arr) THEN Len(arr) ELSE a + 1
        hi == IF b > Len(arr) THEN Len(arr) ELSE b
    IN  IF lo < hi THEN SubSeq(arr, lo + 1, hi) ELSE <<>>

\* Python's arr[a:b] on a sequence
SliceBound(x, n) == IF x < 0 THEN (IF x + n < 0 THEN 0 ELSE x + n) ELSE (IF x > n THEN n ELSE x)
Slice(arr, a, b) ==
    LET lo == SliceBound(a, Len(arr))
        hi == SliceBound(b, Len(arr))
    IN  IF lo < hi THEN SubSeq(arr, lo + 1, hi) ELSE <<>>

\* float() of a number read from an array, in thousandths
FloatOf(x) == x * 1000

RECURSIVE DigitsOf(_)
\* a non-negative int as its digit sequence
DigitsOf(n) ==
    LET d == <<"0", "1", "2", "3", "4", "5", "6", "7", "8", "9">>[(n % 10) + 1]
    IN  IF n < 10 THEN <<d>> ELSE DigitsOf(n \div 10) \o <<d>>

\* (mutant) the scan is numbered from its offset: scan_number = start + 1
ScanRowsByOffset(k) ==
    LET start == arrays.scan_index[k + 1]
        count == arrays.point_count[k + 1]
        channels == Slice(arrays.mass_values, start, start + count)
        intensities == Slice(arrays.intensity_values, start, start + count)
        rt == IF k < Len(arrays.rt_vals) THEN FloatOf(arrays.rt_vals[k + 1]) ELSE 0
        scan_number == start + 1
        n == IF Len(channels) < Len(intensities) THEN Len(channels) ELSE Len(intensities)
    IN  [q \in 1..n |-> <<DigitsOf(scan_number), rt, FloatOf(channels[q]), FloatOf(intensities[q])>>]

\* (mutant) a scan beyond the retention array gets no rows
ScanRowsNeedsRt(k) ==
    LET start == arrays.scan_index[k + 1]
        count == arrays.point_count[k + 1]
        channels == Slice(arrays.mass_values, start, start + count)
        intensities == Slice(arrays.intensity_values, start, start + count)
        scan_number == k + 1
        n == IF Len(channels) < Len(intensities) THEN Len(channels) ELSE Len(intensities)
    IN  IF k < Len(arrays.rt_vals)
        THEN [q \in 1..n |-> <<DigitsOf(scan_number), FloatOf(arrays.rt_vals[k + 1]),
                                FloatOf(channels[q]), FloatOf(intensities[q])>>]
        ELSE <<>>

\* the rows of scan k (0-based): zip of the two slices
ScanRows(k) ==
    LET start == arrays.scan_index[k + 1]
        count == arrays.point_count[k + 1]
        channels == Slice(arrays.mass_values, start, start + count)
        intensities == Slice(arrays.intensity_values, start, start + count)
        rt == IF k < Len(arrays.rt_vals) THEN FloatOf(arrays.rt_vals[k + 1]) ELSE 0
        scan_number == k + 1
        n == IF Len(channels) < Len(intensities) THEN Len(channels) ELSE Len(intensities)
    IN  [q \in 1..n |-> <<DigitsOf(scan_number), rt, FloatOf(channels[q]), FloatOf(intensities[q])>>]

CdfKey == Label(Basename(path), <<"1">>)

CdfInit ==
    /\ NoCaller
    /\ path \in CdfPaths
    /\ \E input \in ({ParserEnv} \X CdfFiles) \cup (OtherEnvs \X SmallCdfFiles) :
          env = input[1] /\ file = input[2]
    /\ pc = "open"
    /\ ds = "none"
    /\ arrays = NoArrays
    /\ i = 0
    /\ rows = <<>>
    /\ result = EmptyMapping
    /\ error = NoError
    /\ budget = [lines |-> 0, other |-> 0] /\ nread = 0 /\ nother = 0 /\ line = <<>>
    /\ current_function = None /\ current_scan = None /\ current_rt = None
    /\ functions = EmptyMapping
    /\ h_gate = [func |-> FALSE, scan |-> FALSE, rt |-> FALSE, early |-> FALSE]
    /\ h_acc = EmptyMapping
    /\ h_shape = [at |-> "start", k |-> 0]
    /\ h_pair = [ok |-> TRUE, pending |-> None, decl |-> EmptyMapping]
    /\ h_sort = [ok |-> TRUE, last |-> EmptyMapping]

asciiOnly == <<budget, nread, nother, line, current_function, current_scan, current_rt,
               functions, historyVars>>

\* ds = _load_dataset(path)
Open ==
    /\ pc = "open"
    /\ IF Reader(env) = "none"
       THEN /\ pc' = "raised"
            /\ error' = Exception("ImportError", FALSE, "no netCDF reader")
            /\ UNCHANGED ds
       ELSE /\ pc' = "lookup"
            /\ ds' = "open"
            /\ UNCHANGED error
    /\ UNCHANGED <<path, env, file, arrays, i, rows, result, asciiOnly, callerVars>>

\* the try block: the five reads; on an exception, close and raise ValueError
Lookup ==
    /\ pc = "lookup"
    /\ IF LookupFails
       THEN /\ ds' = "closed"
            /\ pc' = "raised"
            /\ error' = WrappedError(FirstFailure.cause)
            /\ UNCHANGED arrays
       ELSE /\ arrays' = [scan_index |-> Lookups[1].value, point_count |-> Lookups[2].value,
                          mass_values |-> Lookups[3].value, intensity_values |-> Lookups[4].value,
                          rt_vals |-> Lookups[5].value]
            /\ pc' = "scan"
            /\ UNCHANGED <<ds, error>>
    /\ UNCHANGED <<path, env, file, i, rows, result, asciiOnly, callerVars>>

\* (mutant) a while loop that advances only past a scan that gave rows
ScanStepStalls ==
    /\ pc = "scan"
    /\ i < Len(arrays.scan_index)
    /\ IF i >= Len(arrays.point_count)
       THEN /\ pc' = "raised"
            /\ error' = Exception("IndexError", FALSE, "IndexError")
            /\ UNCHANGED <<i, rows>>
       ELSE /\ rows' = rows \o ScanRows(i)
            /\ i' = IF ScanRows(i) = <<>> THEN i ELSE i + 1
            /\ UNCHANGED <<pc, error>>
    /\ UNCHANGED <<path, env, file, ds, arrays, result, asciiOnly, callerVars>>

\* one iteration of "for i in range(n_scans)"; point_count[i] raises IndexError when
\* point_count is shorter than scan_index
ScanStep ==
    /\ pc = "scan"
    /\ i < Len(arrays.scan_index)
    /\ IF i >= Len(arrays.point_count)
       THEN /\ pc' = "raised"
            /\ error' = Exception("IndexError", FALSE, "IndexError")
            /\ UNCHANGED <<i, rows>>
       ELSE /\ rows' = rows \o ScanRows(i)
            /\ i' = i + 1
            /\ UNCHANGED <<pc, error>>
    /\ UNCHANGED <<path, env, file, ds, arrays, result, asciiOnly, callerVars>>

\* (mutant) a table without rows is left out, as parse_ascii does
ReturnDropsEmpty ==
    /\ pc = "scan"
    /\ i = Len(arrays.scan_index)
    /\ ds' = "closed"
    /\ result' = IF rows = <<>> THEN EmptyMapping ELSE (CdfKey :> DataFrame(rows))
    /\ pc' = "done"
    /\ UNCHANGED <<path, env, file, arrays, i, rows, error, asciiOnly, callerVars>>

\* after the loop: ds.close(), the DataFrame, return {key: df}
Return ==
    /\ pc = "scan"
    /\ i = Len(arrays.scan_index)
    /\ ds' = "closed"
    /\ result' = (CdfKey :> DataFrame(rows))
    /\ pc' = "done"
    /\ UNCHANGED <<path, env, file, arrays, i, rows, error, asciiOnly, callerVars>>

CdfNext == Open \/ Lookup \/ ScanStep \/ Return

SpecCdf == CdfInit /\ [][CdfNext]_vars

(***************************************************************************)
(* parse_cdf on files whose offsets and lengths may be negative: int() of   *)
(* an array element is any integer, and a slice takes a negative bound from *)
(* the end of the array.                                                    *)
(***************************************************************************)
MaxNegative == 1

SignedPayloads ==
    UNION { { [scan_index |-> si, point_count |-> pcnt, n_mass |-> MaxPoints,
               n_intensity |-> ni, n_rt |-> n] :
                si \in [1..n -> (0 - MaxNegative)..MaxOffset],
                pcnt \in [1..n -> (0 - MaxNegative)..(MaxCount + 1)],
                ni \in {MaxPoints - 1, MaxPoints} } : n \in 1..MaxScans }

SignedInit ==
    /\ NoCaller
    /\ path \in CdfPaths
    /\ env = ParserEnv
    /\ file \in {CdfFile(Primary, p, {}) : p \in SignedPayloads} \cup SmallCdfFiles
    /\ pc = "open"
    /\ ds = "none"
    /\ arrays = NoArrays
    /\ i = 0
    /\ rows = <<>>
    /\ result = EmptyMapping
    /\ error = NoError
    /\ budget = [lines |-> 0, other |-> 0] /\ nread = 0 /\ nother = 0 /\ line = <<>>
    /\ current_function = None /\ current_scan = None /\ current_rt = None
    /\ functions = EmptyMapping
    /\ h_gate = [func |-> FALSE, scan |-> FALSE, rt |-> FALSE, early |-> FALSE]
    /\ h_acc = EmptyMapping
    /\ h_shape = [at |-> "start", k |-> 0]
    /\ h_pair = [ok |-> TRUE, pending |-> None, decl |-> EmptyMapping]
    /\ h_sort = [ok |-> TRUE, last |-> EmptyMapping]

SpecSigned == SignedInit /\ [][CdfNext]_vars

(***************************************************************************)
(* A call of either decoder, run to its end.  The interpreter executes the  *)
(* call's statements one after the other and nothing else can hold it up:   *)
(* a step that is possible is eventually taken (weak fairness of each step  *)
(* of the call).                                                            *)
(***************************************************************************)
MaxCallLines == 4

\* the CDF files of the calls followed to their end: the scans laid out in order, with every
\* choice of lengths (point_count possibly short), and the small files with and without
\* scan_index
CallFiles ==
    {CdfFile(Primary, p, {}) :
        p \in {q \in Payloads :
                  /\ q.n_intensity = MaxPoints
                  /\ q.n_rt = Len(q.scan_index)
                  /\ \A k \in 2..Len(q.scan_index) : q.scan_index[k - 1] <= q.scan_index[k]}}
    \cup SmallCdfFiles

CallsInit ==
    \/ TextInit /\ budget.lines <= MaxCallLines
    \/ CdfInit /\ env = ParserEnv /\ file \in CallFiles

CallsNext == TextNext \/ CdfNext

\* "for raw_line in fh" has a next line to read
Reading == pc = "read" /\ nread < budget.lines

\* Weak fairness of the line loop's iteration, of the end of the loop and of the steps of
\* parse_cdf.  The iteration is possible exactly when Reading holds (its body has no other
\* guard) and it is the one step that advances nread, so WF_vars(ReadTextLine) is written
\* with Reading in the place of ENABLED <<ReadTextLine>>_vars.
CallsFair ==
    /\ []<>(~Reading) \/ []<><<nread' = nread + 1>>_vars
    /\ WF_vars(EndOfText)
    /\ WF_vars(CdfNext)

SpecCalls == CallsInit /\ [][CallsNext]_vars /\ CallsFair

(***************************************************************************)
(* The caller: MSAnalyzerGUI._parse_selected_files and _load_csv_files.     *)
(* The files on disk are fixed; what varies is the selection.               *)
(***************************************************************************)
MaxBatch == 3
MaxFaults == 1
MaxLoads == 1

P_a_run1_txt == <<"/", "a", "/", "r", "u", "n", "1", ".", "t", "x", "t">>
P_b_run1_TXT == <<"/", "b", "/", "r", "u", "n", "1", ".", "T", "X", "T">>
P_a_run2_txt == <<"/", "a", "/", "r", "u", "n", "2", ".", "t", "x", "t">>
P_a_huge_txt == <<"/", "a", "/", "h", "u", "g", "e", ".", "t", "x", "t">>
P_a_run1_cdf == <<"/", "a", "/", "r", "u", "n", "1", ".", "c", "d", "f">>
P_a_bad_cdf == <<"/", "a", "/", "b", "a", "d", ".", "c", "d", "f">>
P_a_short_cdf == <<"/", "a", "/", "s", "h", "o", "r", "t", ".", "c", "d", "f">>
P_a_notes_dat == <<"/", "a", "/", "n", "o", "t", "e", "s", ".", "d", "a", "t">>
W_out == <<"/", "o", "u", "t">>

\* the ASCII dumps on disk, by path: their raw lines
AsciiDisk ==
    (P_a_run1_txt :> <<L_function1, L_scan1, L_rt050, L_data1, L_function2>>)
    @@ (P_b_run1_TXT :> <<L_function1, L_scan2, L_rt07, L_data2, L_data1>>)
    @@ (P_a_run2_txt :> <<L_function2, L_scan1, L_rt050, L_data2, L_function1, L_scan2, L_rt07, L_data1>>)
    @@ (P_a_huge_txt :> <<L_function1, L_scanHuge, L_rt050, L_data1>>)
    @@ (P_a_notes_dat :> <<L_function1, L_scan1, L_rt050, L_data1>>)

GoodPayload == [scan_index |-> <<0, 1>>, point_count |-> <<1, 2>>, n_mass |-> MaxPoints,
                n_intensity |-> MaxPoints, n_rt |-> 2]
ShortPayload == [scan_index |-> <<0, 1>>, point_count |-> <<1>>, n_mass |-> MaxPoints,
                 n_intensity |-> MaxPoints, n_rt |-> 2]

\* the CDF files on disk: a good one, one without intensities, one whose point_count is short
CdfDisk ==
    (P_a_run1_cdf :> CdfFile(Primary, GoodPayload, {}))
    @@ (P_a_bad_cdf :> CdfFile(Primary \ {"intensity_values"}, GoodPayload, {}))
    @@ (P_a_short_cdf :> CdfFile(Primary, ShortPayload, {}))

RawPaths == DOMAIN AsciiDisk \cup DOMAIN CdfDisk \cup {P_a_notes_dat}

RECURSIVE SeqsUpTo(_, _)
\* the sequences over S of length at most n
SeqsUpTo(S, n) ==
    IF n = 0 THEN {<<>>}
    ELSE LET shorter == SeqsUpTo(S, n - 1)
         IN  shorter \cup {Append(q, x) : q \in shorter, x \in S}

Selections == SeqsUpTo(RawPaths, MaxBatch)

\* str.lower() and str.endswith()
LowerStr(str) == [ix \in 1..Len(str) |-> Lower(str[ix])]
EndsWith(str, suffix) ==
    Len(str) >= Len(suffix) /\ SubSeq(str, Len(str) - Len(suffix) + 1, Len(str)) = suffix
W_dot_txt == <<".", "t", "x", "t">>
W_dot_cdf == <<".", "c", "d", "f">>

(***************************************************************************)
(* DataFrame.to_csv(index=False) and pd.read_csv: the text of a csv file is *)
(* its lines.  repr() of a float is modelled for values with at most three  *)
(* fraction digits; the empty (NaN) and quoted cells are not among the      *)
(* texts written.                                                           *)
(***************************************************************************)
W_Channel == <<"C", "h", "a", "n", "n", "e", "l">>
W_Intensity == <<"I", "n", "t", "e", "n", "s", "i", "t", "y">>
W_mz == <<"m", "/", "z">>
W_other == <<"o", "t", "h", "e", "r">>

RECURSIVE Join(_, _)
Join(cells, sep) ==
    IF Len(cells) = 0 THEN <<>>
    ELSE IF Len(cells) = 1 THEN cells[1]
    ELSE cells[1] \o <<sep>> \o Join(Tail(cells), sep)

RECURSIVE SplitOn(_, _)
\* str.split(sep) on a one-character separator
SplitOn(str, sep) ==
    IF \A ix \in 1..Len(str) : str[ix] # sep THEN <<str>>
    ELSE LET k == CHOOSE ix \in 1..Len(str) : str[ix] = sep /\ \A j \in 1..(ix - 1) : str[j] # sep
         IN  <<SubSeq(str, 1, k - 1)>> \o SplitOn(Drop(str, k), sep)

\* repr() of a float given in thousandths: 100000 -> 100.0, 500 -> 0.5, 1250 -> 1.25
FormatFloat(x) ==
    LET a == IF x < 0 THEN -x ELSE x
        whole == DigitsOf(a \div 1000)
        f1 == DigitsOf((a % 1000) \div 100)
        f2 == DigitsOf((a % 100) \div 10)
        f3 == DigitsOf(a % 10)
        frac == IF a % 10 # 0 THEN f1 \o f2 \o f3
                ELSE IF a % 100 # 0 THEN f1 \o f2
                ELSE f1
    IN  (IF x < 0 THEN <<"-">> ELSE <<>>) \o whole \o <<".">> \o frac

\* str() of an int64: its decimal digits
FormatInt(d) == d

CsvHeader == Join(<<W_Scan, W_RetentionTime, W_Channel, W_Intensity>>, ",")

\* (mutant) the header names Channel before Retention Time, the rows do not
ToCsvHeaderSwapped(df) ==
    <<Join(<<W_Scan, W_Channel, W_RetentionTime, W_Intensity>>, ",")>> \o
    [ix \in 1..Len(df) |->
        Join(<<FormatInt(df[ix].Scan), FormatFloat(df[ix].RetentionTime),
               FormatFloat(df[ix].Channel), FormatFloat(df[ix].Intensity)>>, ",")]

\* df.to_csv(path, index=False): the header line and one line per row
ToCsv(df) ==
    <<CsvHeader>> \o
    [ix \in 1..Len(df) |->
        Join(<<FormatInt(df[ix].Scan), FormatFloat(df[ix].RetentionTime),
               FormatFloat(df[ix].Channel), FormatFloat(df[ix].Intensity)>>, ",")]

\* read_csv's type inference for a column: int64 when every cell is a digit run, float64
\* when every cell is a number, else object
IsIntText(cell) == cell # <<>> /\ DigitRun(cell) = cell
ColumnKind(cells) ==
    IF cells = <<>> THEN "object"
    ELSE IF \A ix \in 1..Len(cells) : IsIntText(cells[ix]) THEN "int"
    ELSE IF \A ix \in 1..Len(cells) : PyFloat(cells[ix]) # None THEN "float"
    ELSE "object"
CellValue(cell, kind) ==
    CASE kind = "int" -> PyInt(cell)
      [] kind = "float" -> Val(PyFloat(cell))
      [] OTHER -> cell

\* pd.read_csv(path): the column names and, per row, the values
ReadCsv(text) ==
    LET columns == SplitOn(text[1], ",")
        cells == [r \in 1..(Len(text) - 1) |-> SplitOn(text[r + 1], ",")]
        column(c) == [r \in 1..Len(cells) |-> cells[r][c]]
    IN  [columns |-> columns,
         data |-> [r \in 1..Len(cells) |->
                     [c \in 1..Len(columns) |-> CellValue(cells[r][c], ColumnKind(column(c)))]]]

\* col_map = {c.lower(): c for c in df.columns}: the position of the (last) column whose
\* lower-cased name is name, 0 when there is none
ColumnOf(columns, name) ==
    IF \E c \in 1..Len(columns) : LowerStr(columns[c]) = name
    THEN CHOOSE c \in 1..Len(columns) :
            /\ LowerStr(columns[c]) = name
            /\ \A j \in (c + 1)..Len(columns) : LowerStr(columns[j]) # name
    ELSE 0

RequiredColumns == <<LowerStr(W_Scan), LowerStr(W_RetentionTime), LowerStr(W_Channel), LowerStr(W_Intensity)>>

\* the table _load_csv_files registers for a csv text, None when the file is skipped
LoadedTable(text) ==
    IF text = <<>> THEN None
    ELSE LET csv == ReadCsv(text)
             at == [c \in 1..4 |-> ColumnOf(csv.columns, RequiredColumns[c])]
         IN  IF \E c \in 1..4 : at[c] = 0 THEN None
             ELSE Some([r \in 1..Len(csv.data) |->
                          [Scan |-> csv.data[r][at[1]], RetentionTime |-> csv.data[r][at[2]],
                           Channel |-> csv.data[r][at[3]], Intensity |-> csv.data[r][at[4]]]])

\* a csv file written by MSAnalyzerApp (msanalyzer.py), whose third column is m/z
ForeignCsv ==
    <<Join(<<W_Scan, W_RetentionTime, W_mz, W_Intensity>>, ","),
      Join(<<<<"1">>, <<"0", ".", "5">>, T_100_0, T_250_0>>, ",")>>

(***************************************************************************)
(* _parse_selected_files: one decoder call per selected file, each call     *)
(* running in the decoder's variables, and the merge of what it returns.    *)
(***************************************************************************)
W_dot_csv == <<".", "c", "s", "v">>
W_csv_dir == <<"/", "c", "s", "v", "/">>

\* os.path.join(csv_dir, f"{func_label}.csv"), as the name of the file in csv_dir
CsvName(func_label) == func_label \o W_dot_csv

RECURSIVE SeqOfSet(_)
\* the elements of a finite set, in some fixed order
SeqOfSet(S) == IF S = {} THEN <<>> ELSE LET x == CHOOSE y \in S : TRUE IN <<x>> \o SeqOfSet(S \ {x})

Message(kind, about, exc) == [kind |-> kind, about |-> about, exc |-> exc]

HistoryStart ==
    /\ h_gate' = [func |-> FALSE, scan |-> FALSE, rt |-> FALSE, early |-> FALSE]
    /\ h_acc' = EmptyMapping
    /\ h_shape' = [at |-> "start", k |-> 0]
    /\ h_pair' = [ok |-> TRUE, pending |-> None, decl |-> EmptyMapping]
    /\ h_sort' = [ok |-> TRUE, last |-> EmptyMapping]

\* (mutant) the row lists live on the class and survive the call
EnterAsciiKeepsRows(p) ==
    /\ path' = p
    /\ pc' = "read"
    /\ nread' = 0 /\ nother' = 0 /\ line' = <<>>
    /\ budget' = [lines |-> Len(AsciiDisk[p]), other |-> 0]
    /\ current_function' = None /\ current_scan' = None /\ current_rt' = None
    /\ functions' = functions
    /\ result' = EmptyMapping /\ error' = NoError
    /\ HistoryStart
    /\ file' = NoFile /\ ds' = "none" /\ arrays' = NoArrays /\ i' = 0 /\ rows' = <<>>
    /\ UNCHANGED env

\* MassSpecParser.parse_ascii(p) is entered: its locals are created
EnterAscii(p) ==
    /\ path' = p
    /\ pc' = "read"
    /\ nread' = 0 /\ nother' = 0 /\ line' = <<>>
    /\ budget' = [lines |-> Len(AsciiDisk[p]), other |-> 0]
    /\ current_function' = None /\ current_scan' = None /\ current_rt' = None
    /\ functions' = EmptyMapping
    /\ result' = EmptyMapping /\ error' = NoError
    /\ HistoryStart
    /\ file' = NoFile /\ ds' = "none" /\ arrays' = NoArrays /\ i' = 0 /\ rows' = <<>>
    /\ UNCHANGED env

\* MassSpecParser.parse_cdf(p) is entered
EnterCdf(p) ==
    /\ path' = p
    /\ pc' = "open"
    /\ file' = CdfDisk[p] /\ ds' = "none" /\ arrays' = NoArrays /\ i' = 0 /\ rows' = <<>>
    /\ result' = EmptyMapping /\ error' = NoError
    /\ nread' = 0 /\ nother' = 0 /\ line' = <<>> /\ budget' = [lines |-> 0, other |-> 0]
    /\ current_function' = None /\ current_scan' = None /\ current_rt' = None
    /\ functions' = EmptyMapping
    /\ HistoryStart
    /\ UNCHANGED env

BatchInit ==
    /\ selected_raw_files \in Selections
    /\ output_directory \in {None, Some(W_out)}
    /\ loaded_data = <<>>
    /\ messages = <<>>
    /\ csv_dir = (CsvName(W_other) :> ForeignCsv)
    /\ csv_selected = <<>>
    /\ gpc = "idle"
    /\ pos = 0
    /\ h_latest = <<>> /\ h_outcome = <<>> /\ h_exported = <<>>
    /\ running = 0 /\ parked = <<>> /\ merged = <<>> /\ switches = 0
    /\ NoDesk
    /\ path = <<>> /\ pc = "none" /\ budget = [lines |-> 0, other |-> 0]
    /\ nread = 0 /\ nother = 0 /\ line = <<>>
    /\ current_function = None /\ current_scan = None /\ current_rt = None
    /\ functions = EmptyMapping /\ result = EmptyMapping /\ error = NoError
    /\ env = ParserEnv /\ file = NoFile /\ ds = "none" /\ arrays = NoArrays /\ i = 0 /\ rows = <<>>
    /\ h_gate = [func |-> FALSE, scan |-> FALSE, rt |-> FALSE, early |-> FALSE]
    /\ h_acc = EmptyMapping
    /\ h_shape = [at |-> "start", k |-> 0]
    /\ h_pair = [ok |-> TRUE, pending |-> None, decl |-> EmptyMapping]
    /\ h_sort = [ok |-> TRUE, last |-> EmptyMapping]

batchGhost == <<h_latest, h_outcome, h_exported>>

\* the handler is entered: the two warnings, or the loop starts
StartParse ==
    /\ gpc = "idle"
    /\ IF selected_raw_files = <<>> \/ output_directory = None
       THEN gpc' = "warned" /\ UNCHANGED <<messages, pos>>
       ELSE gpc' = "loop" /\ messages' = <<>> /\ pos' = 0
    /\ UNCHANGED <<selected_raw_files, output_directory, loaded_data, csv_dir, csv_selected>>
    /\ UNCHANGED <<batchGhost, taskVars, deskVars, asciiVars, cdfVars>>

\* the top of an iteration: the decoder is chosen by the extension
Dispatch ==
    /\ gpc = "loop"
    /\ pos < Len(selected_raw_files)
    /\ \E p \in {selected_raw_files[pos + 1]} :
          IF EndsWith(LowerStr(p), W_dot_txt)
          THEN EnterAscii(p) /\ gpc' = "call" /\ UNCHANGED <<messages, pos, h_outcome>>
          ELSE IF EndsWith(LowerStr(p), W_dot_cdf)
          THEN EnterCdf(p) /\ gpc' = "call" /\ UNCHANGED <<messages, pos, h_outcome>>
          ELSE /\ messages' = Append(messages, Message("unsupported", p, "none"))
               /\ pos' = pos + 1
               /\ h_outcome' = Append(h_outcome, "unsupported")
               /\ UNCHANGED <<gpc, asciiVars, cdfVars>>
    /\ UNCHANGED <<selected_raw_files, output_directory, loaded_data, csv_dir, csv_selected>>
    /\ UNCHANGED <<h_latest, h_exported, taskVars, deskVars>>

\* parse_ascii's loop reads the next line of the file on disk
ReadFileLine ==
    /\ gpc = "call"
    /\ pc = "read"
    /\ nread < Len(AsciiDisk[path])
    /\ LoopBody(AsciiDisk[path][nread + 1])
    /\ UNCHANGED <<nother, cdfVars, callerVars>>

\* the file is exhausted
EndOfFile ==
    /\ gpc = "call"
    /\ pc = "read"
    /\ nread = Len(AsciiDisk[path])
    /\ Finish

\* the steps of parse_cdf
CdfCall == gpc = "call" /\ (Open \/ Lookup \/ ScanStep \/ Return)

RECURSIVE AssignAllKeepFirst(_, _, _)
AssignAllKeepFirst(reg, parsed, keys) ==
    IF keys = {} THEN reg
    ELSE LET k == CHOOSE x \in keys : TRUE
         IN  AssignAllKeepFirst(reg @@ (k :> parsed[k]), parsed, keys \ {k})

\* (mutant) a label already in the registry keeps its table: setdefault
MergeKeepsFirst(reg, parsed) == AssignAllKeepFirst(reg, parsed, DOMAIN parsed)

RECURSIVE AssignAllExtend(_, _, _)
AssignAllExtend(reg, parsed, keys) ==
    IF keys = {} THEN reg
    ELSE LET k == CHOOSE x \in keys : TRUE
         IN  AssignAllExtend(IF k \in DOMAIN reg THEN [reg EXCEPT ![k] = @ \o parsed[k]]
                             ELSE reg @@ (k :> parsed[k]), parsed, keys \ {k})

\* (mutant) the rows of a colliding table are added to the table already there: concat
MergeExtends(reg, parsed) == AssignAllExtend(reg, parsed, DOMAIN parsed)

RECURSIVE AssignAll(_, _, _)
\* for func_label, df in parsed.items(): self.loaded_data[func_label] = df
AssignAll(reg, parsed, keys) ==
    IF keys = {} THEN reg
    ELSE LET k == CHOOSE x \in keys : TRUE
         IN  AssignAll((k :> parsed[k]) @@ reg, parsed, keys \ {k})

Merge(reg, parsed) == AssignAll(reg, parsed, DOMAIN parsed)

\* (mutant) a failing write is not caught inside the loop: the labels of the file are not
\* written when one of them fails
WriteCsvsGivesUp(dir, parsed, nocsv) ==
    IF nocsv # {} THEN dir
    ELSE [n \in DOMAIN dir \cup {CsvName(k) : k \in DOMAIN parsed} |->
             IF \E k \in DOMAIN parsed : CsvName(k) = n
             THEN ToCsv(parsed[CHOOSE k \in DOMAIN parsed : CsvName(k) = n])
             ELSE dir[n]]

\* df.to_csv(out_csv, index=False) for the labels whose write does not fail
WriteCsvs(dir, parsed, nocsv) ==
    [n \in DOMAIN dir \cup {CsvName(k) : k \in DOMAIN parsed \ nocsv} |->
        IF \E k \in DOMAIN parsed \ nocsv : CsvName(k) = n
        THEN ToCsv(parsed[CHOOSE k \in DOMAIN parsed \ nocsv : CsvName(k) = n])
        ELSE dir[n]]

\* the messages of the per-label try blocks
LabelMessages(labels, nocsv, noplot) ==
    LET of(k) == (IF k \in nocsv THEN <<Message("csv", k, "Exception")>> ELSE <<>>)
                 \o (IF k \in noplot THEN <<Message("plot", k, "Exception")>> ELSE <<>>)
        F[n \in 0..Len(labels)] == IF n = 0 THEN <<>> ELSE F[n - 1] \o of(labels[n])
    IN  F[Len(labels)]

\* the writes and plots that have failed so far in this batch
Faults(msgs) == Cardinality({n \in 1..Len(msgs) : msgs[n].kind \in {"csv", "plot"}})

\* the call returned: every table is stored, written and plotted; a failing write or plot
\* leaves a message
MergeParsed ==
    /\ gpc = "call"
    /\ pc = "done"
    /\ loaded_data' = Merge(loaded_data, result)
    /\ \E nocsv \in SUBSET DOMAIN result, noplot \in SUBSET DOMAIN result :
          /\ Faults(messages) + Cardinality(nocsv) + Cardinality(noplot) <= MaxFaults
          /\ csv_dir' = WriteCsvs(csv_dir, result, nocsv)
          /\ messages' = messages \o LabelMessages(SeqOfSet(DOMAIN result), nocsv, noplot)
          /\ h_exported' = [k \in DOMAIN h_exported \cup (DOMAIN result \ nocsv) |->
                               IF k \in DOMAIN result \ nocsv THEN result[k] ELSE h_exported[k]]
    /\ h_latest' = [k \in DOMAIN h_latest \cup DOMAIN result |->
                       IF k \in DOMAIN result THEN result[k] ELSE h_latest[k]]
    /\ h_outcome' = Append(h_outcome, "ok")
    /\ pos' = pos + 1
    /\ gpc' = "loop"
    /\ UNCHANGED <<selected_raw_files, output_directory, csv_selected, taskVars, deskVars, asciiVars, cdfVars>>

\* (mutant) the exception is not caught: the handler ends with it
ReportFailureAborts ==
    /\ gpc = "call"
    /\ pc = "raised"
    /\ messages' = Append(messages, Message("error", PathBasename(path), error.type))
    /\ h_outcome' = Append(h_outcome, "failed")
    /\ pos' = pos + 1
    /\ gpc' = "finished"
    /\ UNCHANGED <<selected_raw_files, output_directory, loaded_data, csv_dir, csv_selected>>
    /\ UNCHANGED <<h_latest, h_exported, taskVars, deskVars, asciiVars, cdfVars>>

\* except Exception as exc: the message, and on to the next file
ReportFailure ==
    /\ gpc = "call"
    /\ pc = "raised"
    /\ messages' = Append(messages, Message("error", PathBasename(path), error.type))
    /\ h_outcome' = Append(h_outcome, "failed")
    /\ pos' = pos + 1
    /\ gpc' = "loop"
    /\ UNCHANGED <<selected_raw_files, output_directory, loaded_data, csv_dir, csv_selected>>
    /\ UNCHANGED <<h_latest, h_exported, taskVars, deskVars, asciiVars, cdfVars>>

\* (mutant) every combobox is cleared: cb.set('') whatever it held
RefreshDropdownsClears(dd, reg) == [cb \in DOMAIN dd |-> <<>>]

\* _refresh_dropdowns: a combobox keeps its selection if it is a key of the registry and
\* is cleared otherwise
RefreshDropdowns(dd, reg) == [cb \in DOMAIN dd |-> IF dd[cb] \in DOMAIN reg THEN dd[cb] ELSE <<>>]

\* after the loop: the dropdowns are refreshed and the status is set
EndParse ==
    /\ gpc = "loop"
    /\ pos = Len(selected_raw_files)
    /\ gpc' = "finished"
    /\ dropdown' = RefreshDropdowns(dropdown, loaded_data)
    /\ UNCHANGED <<selected_raw_files, output_directory, loaded_data, messages, csv_dir, csv_selected, pos>>
    /\ UNCHANGED <<batchGhost, taskVars, fr_result, imported, asciiVars, cdfVars>>

RECURSIVE LoadFiles(_, _, _)
\* (mutant) the loop ends at the first file that is skipped: break
LoadFilesStopsAtBad(acc, dir, paths) ==
    IF paths = <<>> THEN acc
    ELSE LET table == LoadedTable(dir[PathBasename(Head(paths))])
         IN  IF table = None
             THEN [acc EXCEPT !.skipped = Append(@, PathBasename(Head(paths)))]
             ELSE LoadFiles([acc EXCEPT !.reg = (Basename(Head(paths)) :> Val(table)) @@ @],
                            dir, Tail(paths))

\* for path in files: the table is registered under the file's stem, or the file's name
\* goes to skipped; acc.reg is the registry and acc.skipped the list so far
LoadFiles(acc, dir, paths) ==
    IF paths = <<>> THEN acc
    ELSE LET table == LoadedTable(dir[PathBasename(Head(paths))])
         IN  LoadFiles(IF table = None
                       THEN [acc EXCEPT !.skipped = Append(@, PathBasename(Head(paths)))]
                       ELSE [acc EXCEPT !.reg = (Basename(Head(paths)) :> Val(table)) @@ @],
                       dir, Tail(paths))

\* _load_csv_files with the files paths chosen in the dialog
LoadCsvFiles(paths) ==
    /\ gpc \in {"idle", "finished"}
    /\ csv_selected' = csv_selected \o paths
    /\ \E out \in {LoadFiles([reg |-> loaded_data, skipped |-> <<>>], csv_dir, paths)} :
          /\ loaded_data' = out.reg
          /\ imported' = [files |-> paths, skipped |-> out.skipped]
          /\ dropdown' = RefreshDropdowns(dropdown, out.reg)
    /\ UNCHANGED <<selected_raw_files, output_directory, messages, csv_dir, gpc, pos, fr_result>>
    /\ UNCHANGED <<batchGhost, taskVars, asciiVars, cdfVars>>

\* _load_csv_files with one file of the csv directory chosen
LoadCsv ==
    /\ output_directory # None
    /\ Len(csv_selected) < MaxLoads
    /\ \E name \in DOMAIN csv_dir : LoadCsvFiles(<<Val(output_directory) \o W_csv_dir \o name>>)

BatchNext ==
    \/ StartParse
    \/ Dispatch
    \/ ReadFileLine
    \/ EndOfFile
    \/ CdfCall
    \/ MergeParsed
    \/ ReportFailure
    \/ EndParse
    \/ LoadCsv

SpecBatch == BatchInit /\ [][BatchNext]_vars

(***************************************************************************)
(* The window after start: a batch parse, an import of several csv files,   *)
(* and the Find & Replace tab.  Handlers run one at a time.                 *)
(***************************************************************************)
MaxImport == 2

W_empty == <<"e", "m", "p", "t", "y">>
T_1 == <<"1">>
T_7 == <<"7">>
T_0_5 == <<"0", ".", "5">>
FindTexts == {T_1, T_0_5, L_garbage}
ReplaceTexts == {T_7}

\* the batches drawn
GuiSelections == {<<P_a_run1_txt, P_a_run2_txt>>, <<P_a_huge_txt, P_b_run1_TXT>>, <<P_a_run1_cdf>>}

\* the csv directory holds a file of the other application (third column m/z), an empty
\* file, and a file of the other application named as a label of this one
GuiInit ==
    /\ selected_raw_files \in GuiSelections
    /\ output_directory = Some(W_out)
    /\ loaded_data = <<>>
    /\ messages = <<>>
    /\ csv_dir = (CsvName(W_other) :> ForeignCsv) @@ (CsvName(W_empty) :> <<>>)
                 @@ (CsvName(Label(W_run1, T_1)) :> ForeignCsv)
    /\ csv_selected = <<>>
    /\ gpc = "idle"
    /\ pos = 0
    /\ h_latest = <<>> /\ h_outcome = <<>> /\ h_exported = <<>>
    /\ running = 0 /\ parked = <<>> /\ merged = <<>> /\ switches = 0
    /\ NoDesk
    /\ path = <<>> /\ pc = "none" /\ budget = [lines |-> 0, other |-> 0]
    /\ nread = 0 /\ nother = 0 /\ line = <<>>
    /\ current_function = None /\ current_scan = None /\ current_rt = None
    /\ functions = EmptyMapping /\ result = EmptyMapping /\ error = NoError
    /\ env = ParserEnv /\ file = NoFile /\ ds = "none" /\ arrays = NoArrays /\ i = 0 /\ rows = <<>>
    /\ h_gate = [func |-> FALSE, scan |-> FALSE, rt |-> FALSE, early |-> FALSE]
    /\ h_acc = EmptyMapping
    /\ h_shape = [at |-> "start", k |-> 0]
    /\ h_pair = [ok |-> TRUE, pending |-> None, decl |-> EmptyMapping]
    /\ h_sort = [ok |-> TRUE, last |-> EmptyMapping]

\* _load_csv_files with up to MaxImport files of the csv directory chosen, once
ImportCsv ==
    /\ output_directory # None
    /\ csv_selected = <<>>
    /\ \E names \in SeqsUpTo(DOMAIN csv_dir, MaxImport) \ {<<>>} :
          LoadCsvFiles([n \in 1..Len(names) |-> Val(output_directory) \o W_csv_dir \o names[n]])

\* the user picks a function in the combobox of the Find & Replace tab
SelectFrFunction ==
    /\ gpc \in {"idle", "finished"}
    /\ \E lab \in DOMAIN loaded_data : dropdown' = [dropdown EXCEPT !["fr"] = lab]
    /\ UNCHANGED <<guiVars, taskVars, fr_result, imported, asciiVars, cdfVars>>

\* df == val on the numeric columns: the cells that equal val (a float, in thousandths)
Matches(df, val) ==
    {<<r, "Scan">> : r \in {x \in 1..Len(df) : NatOf(df[x].Scan, 0) * 1000 = val}}
    \cup {<<r, "RetentionTime">> : r \in {x \in 1..Len(df) : df[x].RetentionTime = val}}
    \cup {<<r, "Channel">> : r \in {x \in 1..Len(df) : df[x].Channel = val}}
    \cup {<<r, "Intensity">> : r \in {x \in 1..Len(df) : df[x].Intensity = val}}

\* df[numeric_cols] = df[numeric_cols].replace(find_val, replace_val), on the table itself;
\* the replacement values drawn are whole numbers (the dtype the Scan column has afterwards
\* is not modelled, its value is)
Replaced(df, find_val, replace_val) ==
    [r \in 1..Len(df) |->
        [Scan |-> IF NatOf(df[r].Scan, 0) * 1000 = find_val
                  THEN DigitsOf(replace_val \div 1000) ELSE df[r].Scan,
         RetentionTime |-> IF df[r].RetentionTime = find_val THEN replace_val
                           ELSE df[r].RetentionTime,
         Channel |-> IF df[r].Channel = find_val THEN replace_val ELSE df[r].Channel,
         Intensity |-> IF df[r].Intensity = find_val THEN replace_val ELSE df[r].Intensity]]

\* _find_values: the warnings and the error dialog change nothing
FindValues ==
    /\ gpc \in {"idle", "finished"}
    /\ dropdown["fr"] \in DOMAIN loaded_data
    /\ \E query \in FindTexts :
          /\ PyFloat(query) # None
          /\ fr_result' = [kind |-> "found",
                           count |-> Cardinality(Matches(loaded_data[dropdown["fr"]],
                                                         Val(PyFloat(query))))]
    /\ UNCHANGED <<guiVars, taskVars, dropdown, imported, asciiVars, cdfVars>>

\* _replace_values: not found, or (after the user confirms) the table of the registry is
\* changed in place
ReplaceValues ==
    /\ gpc \in {"idle", "finished"}
    /\ dropdown["fr"] \in DOMAIN loaded_data
    /\ \E find_text \in FindTexts, replace_text \in ReplaceTexts, yes \in BOOLEAN :
          /\ PyFloat(find_text) # None
          /\ PyFloat(replace_text) # None
          /\ \E func \in {dropdown["fr"]}, find_val \in {Val(PyFloat(find_text))},
                replace_val \in {Val(PyFloat(replace_text))} :
                \E occurrences \in {Cardinality(Matches(loaded_data[func], find_val))} :
                   IF occurrences = 0
                   THEN /\ fr_result' = [kind |-> "notfound", count |-> 0]
                        /\ UNCHANGED loaded_data
                   ELSE IF ~yes
                   THEN UNCHANGED <<fr_result, loaded_data>>
                   ELSE /\ loaded_data' = [loaded_data EXCEPT ![func] =
                                              Replaced(@, find_val, replace_val)]
                        /\ fr_result' = [kind |-> "replaced", count |-> occurrences]
    /\ UNCHANGED <<selected_raw_files, output_directory, messages, csv_dir, csv_selected, gpc, pos>>
    /\ UNCHANGED <<batchGhost, taskVars, dropdown, imported, asciiVars, cdfVars>>

GuiNext ==
    \/ StartParse
    \/ Dispatch
    \/ ReadFileLine
    \/ EndOfFile
    \/ CdfCall
    \/ MergeParsed
    \/ ReportFailure
    \/ EndParse
    \/ ImportCsv
    \/ SelectFrFunction
    \/ FindValues
    \/ ReplaceValues

SpecGui == GuiInit /\ [][GuiNext]_vars

(***************************************************************************)
(* Decoder calls as concurrent tasks, one per file.  All the state of a     *)
(* call is in the locals of its frame; the decoder variables hold the frame *)
(* of the running task, the others' frames are parked.  The caller's merge  *)
(* into the registry is one step (a single writer).                         *)
(***************************************************************************)
MaxSwitches == 3

Tasks == {1, 2}
TaskPaths == {P_a_run1_txt, P_b_run1_TXT, P_a_run2_txt, P_a_run1_cdf, P_a_short_cdf}

\* the frame of a call that has just been entered
EntryFrame(p) ==
    [path |-> p,
     pc |-> IF p \in DOMAIN AsciiDisk THEN "read" ELSE "open",
     nread |-> 0, nother |-> 0, line |-> <<>>,
     budget |-> [lines |-> IF p \in DOMAIN AsciiDisk THEN Len(AsciiDisk[p]) ELSE 0, other |-> 0],
     current_function |-> None, current_scan |-> None, current_rt |-> None,
     functions |-> EmptyMapping, result |-> EmptyMapping, error |-> NoError,
     file |-> IF p \in DOMAIN CdfDisk THEN CdfDisk[p] ELSE NoFile,
     ds |-> "none", arrays |-> NoArrays, i |-> 0, rows |-> <<>>,
     h_gate |-> [func |-> FALSE, scan |-> FALSE, rt |-> FALSE, early |-> FALSE],
     h_acc |-> EmptyMapping,
     h_shape |-> [at |-> "start", k |-> 0],
     h_pair |-> [ok |-> TRUE, pending |-> None, decl |-> EmptyMapping],
     h_sort |-> [ok |-> TRUE, last |-> EmptyMapping]]

\* the frame of the running task
Frame ==
    [path |-> path, pc |-> pc, nread |-> nread, nother |-> nother, line |-> line,
     budget |-> budget,
     current_function |-> current_function, current_scan |-> current_scan,
     current_rt |-> current_rt, functions |-> functions, result |-> result, error |-> error,
     file |-> file, ds |-> ds, arrays |-> arrays, i |-> i, rows |-> rows,
     h_gate |-> h_gate, h_acc |-> h_acc, h_shape |-> h_shape, h_pair |-> h_pair,
     h_sort |-> h_sort]

\* (mutant) current_scan is a module global: the task resumed finds what the other left
ResumeSharesScan(f) ==
    /\ path' = f.path /\ pc' = f.pc /\ nread' = f.nread /\ nother' = f.nother /\ line' = f.line
    /\ budget' = f.budget
    /\ current_function' = f.current_function
    /\ UNCHANGED current_scan
    /\ current_rt' = f.current_rt /\ functions' = f.functions /\ result' = f.result
    /\ error' = f.error
    /\ file' = f.file /\ ds' = f.ds /\ arrays' = f.arrays /\ i' = f.i /\ rows' = f.rows
    /\ h_gate' = f.h_gate /\ h_acc' = f.h_acc /\ h_shape' = f.h_shape /\ h_pair' = f.h_pair
    /\ h_sort' = f.h_sort

\* a task is resumed: it finds its locals as it left them
Resume(f) ==
    /\ path' = f.path /\ pc' = f.pc /\ nread' = f.nread /\ nother' = f.nother /\ line' = f.line
    /\ budget' = f.budget
    /\ current_function' = f.current_function
    /\ current_scan' = f.current_scan
    /\ current_rt' = f.current_rt /\ functions' = f.functions /\ result' = f.result
    /\ error' = f.error
    /\ file' = f.file /\ ds' = f.ds /\ arrays' = f.arrays /\ i' = f.i /\ rows' = f.rows
    /\ h_gate' = f.h_gate /\ h_acc' = f.h_acc /\ h_shape' = f.h_shape /\ h_pair' = f.h_pair
    /\ h_sort' = f.h_sort

FrameOf(t) == IF t = running THEN Frame ELSE parked[t]

TasksInit ==
    /\ \E p1, p2 \in TaskPaths :
          /\ p1 # p2
          /\ parked = (2 :> EntryFrame(p2))
          /\ path = p1
          /\ pc = EntryFrame(p1).pc
          /\ budget = EntryFrame(p1).budget
          /\ file = EntryFrame(p1).file
    /\ running = 1
    /\ merged = <<>>
    /\ switches = 0
    /\ NoDesk
    /\ nread = 0 /\ nother = 0 /\ line = <<>>
    /\ current_function = None /\ current_scan = None /\ current_rt = None
    /\ functions = EmptyMapping /\ result = EmptyMapping /\ error = NoError
    /\ env = ParserEnv /\ ds = "none" /\ arrays = NoArrays /\ i = 0 /\ rows = <<>>
    /\ h_gate = [func |-> FALSE, scan |-> FALSE, rt |-> FALSE, early |-> FALSE]
    /\ h_acc = EmptyMapping
    /\ h_shape = [at |-> "start", k |-> 0]
    /\ h_pair = [ok |-> TRUE, pending |-> None, decl |-> EmptyMapping]
    /\ h_sort = [ok |-> TRUE, last |-> EmptyMapping]
    /\ selected_raw_files = <<>> /\ output_directory = None /\ loaded_data = <<>>
    /\ messages = <<>> /\ csv_dir = <<>> /\ csv_selected = <<>> /\ gpc = "call" /\ pos = 0
    /\ h_latest = <<>> /\ h_outcome = <<>> /\ h_exported = <<>>

\* the scheduler takes the running task off and resumes task t, which has not ended
Switch(t) ==
    /\ t # running
    /\ t \in DOMAIN parked
    /\ parked[t].pc \notin {"done", "raised"}
    /\ switches < MaxSwitches
    /\ parked' = [u \in (DOMAIN parked \ {t}) \cup {running} |->
                     IF u = running THEN Frame ELSE parked[u]]
    /\ Resume(parked[t])
    /\ running' = t
    /\ switches' = switches + 1
    /\ UNCHANGED <<env, merged, guiVars, deskVars>>

\* the single writer merges what task t returned
TaskMerge(t) ==
    /\ \A n \in 1..Len(merged) : merged[n] # t
    /\ FrameOf(t).pc = "done"
    /\ loaded_data' = Merge(loaded_data, FrameOf(t).result)
    /\ merged' = Append(merged, t)
    /\ UNCHANGED <<selected_raw_files, output_directory, messages, csv_dir, csv_selected, gpc, pos>>
    /\ UNCHANGED <<batchGhost, running, parked, switches, deskVars, asciiVars, cdfVars>>

TasksNext ==
    \/ \E t \in Tasks : Switch(t)
    \/ \E t \in Tasks : TaskMerge(t)
    \/ ReadFileLine
    \/ EndOfFile
    \/ CdfCall

SpecTasks == TasksInit /\ [][TasksNext]_vars

(***************************************************************************)
(* Two calls of parse_ascii, one after the other: the first on a file, the  *)
(* second on the same file without the Scan and Retention Time header lines *)
(* that come before its first FUNCTION header.  The first call's frame is   *)
(* kept when the second is entered, so that what they return can be         *)
(* compared.                                                                *)
(***************************************************************************)
MaxTrimLines == 5

TrimLines == {L_function1, L_scan1, L_rt050, L_data1}

RECURSIVE Trimmed(_)
\* the file without the Scan and Retention Time header lines before its first FUNCTION header
Trimmed(text) ==
    IF text = <<>> \/ Head(text) = L_function1 THEN text
    ELSE IF Head(text) \in {L_scan1, L_rt050} THEN Trimmed(Tail(text))
    ELSE <<Head(text)>> \o Trimmed(Tail(text))

\* the frame of a call of parse_ascii(p) on a file of the given lines, just entered
TextFrame(p, text) ==
    [EntryFrame(p) EXCEPT !.pc = "read",
                          !.budget = [lines |-> Len(text), other |-> 0, text |-> text]]

TrimInit ==
    /\ \E p \in AsciiPaths, text \in TextsUpTo(TrimLines, MaxTrimLines) :
          /\ path = p
          /\ budget = TextFrame(p, text).budget
          /\ parked = (2 :> TextFrame(p, Trimmed(text)))
    /\ running = 1
    /\ merged = <<>>
    /\ switches = 0
    /\ NoDesk
    /\ pc = "read"
    /\ nread = 0 /\ nother = 0 /\ line = <<>>
    /\ current_function = None /\ current_scan = None /\ current_rt = None
    /\ functions = EmptyMapping /\ result = EmptyMapping /\ error = NoError
    /\ env = NoEnv /\ file = NoFile /\ ds = "none" /\ arrays = NoArrays /\ i = 0 /\ rows = <<>>
    /\ h_gate = [func |-> FALSE, scan |-> FALSE, rt |-> FALSE, early |-> FALSE]
    /\ h_acc = EmptyMapping
    /\ h_shape = [at |-> "start", k |-> 0]
    /\ h_pair = [ok |-> TRUE, pending |-> None, decl |-> EmptyMapping]
    /\ h_sort = [ok |-> TRUE, last |-> EmptyMapping]
    /\ selected_raw_files = <<>> /\ output_directory = None /\ loaded_data = <<>>
    /\ messages = <<>> /\ csv_dir = <<>> /\ csv_selected = <<>> /\ gpc = "call" /\ pos = 0
    /\ h_latest = <<>> /\ h_outcome = <<>> /\ h_exported = <<>>

\* the first call has returned: the second is entered
NextCall == pc \in {"done", "raised"} /\ Switch(2)

TrimNext == ReadTextLine \/ EndOfText \/ NextCall

SpecTrim == TrimInit /\ [][TrimNext]_vars

(***************************************************************************)
(* msanalyzer.py carries its own MassSpecParser.parse_ascii.  Here the two  *)
(* decoders are stepped side by side over one file: call 1 is parser.py's,  *)
(* call 2 is msanalyzer.py's; call 1 reads a line, then call 2 reads it.    *)
(***************************************************************************)
MaxSideLines == 4

\* ASCII_FUNCTION_RE = ^FUNCTION\s+(\d+), IGNORECASE
ASCII_FUNCTION_RE(l) == MatchNumbered(l, W_FUNCTION)

\* ASCII_SCAN_RE = ^Scan\s+(\d+), IGNORECASE
ASCII_SCAN_RE(l) == MatchNumbered(l, W_Scan)

\* ASCII_RT_RE = ^Retention Time\s+([0-9]*\.?[0-9]+), IGNORECASE
ASCII_RT_RE(l) ==
    IF ~MatchPrefix(l, W_RetentionTime) THEN None
    ELSE LET r == Drop(l, Len(W_RetentionTime) + Len(SpaceRun(Drop(l, Len(W_RetentionTime)))))
             whole == DigitRun(r)
             frac == IF Drop(r, Len(whole)) # <<>> /\ Head(Drop(r, Len(whole))) = "."
                     THEN DigitRun(Tail(Drop(r, Len(whole))))
                     ELSE <<>>
         IN  IF SpaceRun(Drop(l, Len(W_RetentionTime))) = <<>> THEN None
             ELSE IF frac # <<>> THEN Some(whole \o <<".">> \o frac)
             ELSE IF whole # <<>> THEN Some(whole)
             ELSE None

\* func_key = f"{basename}_Function_{current_function}"
func_key == Basename(path) \o <<"_", "F", "u", "n", "c", "t", "i", "o", "n", "_">> \o Val(current_function)

\* the line is a FUNCTION header
AppOnFunctionHeader(func_match) ==
    \E n \in {PyInt(Val(func_match))} :
        /\ current_function' = Some(n)
        /\ current_scan' = None
        /\ current_rt' = None
        /\ functions' = SetDefault(functions,
                            Basename(path) \o <<"_", "F", "u", "n", "c", "t", "i", "o", "n", "_">> \o n)

\* the line is a Scan header
AppOnScanHeader(scan_match) ==
    /\ current_scan' = Some(PyInt(Val(scan_match)))
    /\ UNCHANGED <<current_function, current_rt, functions>>

\* the line is a Retention Time header
AppOnRtHeader(rt_match) ==
    /\ current_rt' = PyFloat(Val(rt_match))
    /\ UNCHANGED <<current_function, current_scan, functions>>

\* any other line: "<m/z> <intensity>", or skipped
AppOnDataLine(l) ==
    /\ UNCHANGED <<current_function, current_scan, current_rt>>
    /\ IF current_function # None /\ current_scan # None /\ current_rt # None
       THEN LET parts == Split(l)
            IN  IF Len(parts) # 2 THEN UNCHANGED functions
                ELSE LET mz_val == PyFloat(parts[1])
                         intensity == PyFloat(parts[2])
                     IN  IF mz_val = None \/ intensity = None THEN UNCHANGED functions
                         ELSE functions' = AppendRow(functions, func_key,
                                                     <<Val(current_scan), Val(current_rt),
                                                       Val(mz_val), Val(intensity)>>)
       ELSE UNCHANGED functions

\* the body of "for raw_line in fh" after the strip
AppProcessLine(l) ==
    IF l = <<>> THEN UNCHANGED <<current_function, current_scan, current_rt, functions>>
    ELSE IF ASCII_FUNCTION_RE(l) # None THEN AppOnFunctionHeader(ASCII_FUNCTION_RE(l))
    ELSE IF ASCII_SCAN_RE(l) # None THEN AppOnScanHeader(ASCII_SCAN_RE(l))
    ELSE IF ASCII_RT_RE(l) # None THEN AppOnRtHeader(ASCII_RT_RE(l))
    ELSE AppOnDataLine(l)

\* pd.DataFrame(rows, columns=["Scan", "Retention Time", "m/z", "Intensity"])
AppDataFrame(rs) ==
    [ix \in 1..Len(rs) |->
        [Scan |-> rs[ix][1], RetentionTime |-> rs[ix][2], mz |-> rs[ix][3], Intensity |-> rs[ix][4]]]

\* the loop "for key, rows in functions.items()" that makes the returned mapping
AppBuildResult(f) == [k \in {key \in DOMAIN f : f[key] # <<>>} |-> AppDataFrame(f[k])]

\* df["Scan"].astype(int) raises on a scan number beyond 64 bits
AppBuildRaises(f) ==
    \E k \in DOMAIN f : \E ix \in 1..Len(f[k]) : ~IntLe(AppDataFrame(f[k])[ix].Scan, Int64Max)

\* call 2 reads the file's next line
AppReadLine ==
    /\ running = 2
    /\ pc = "read"
    /\ nread < budget.lines
    /\ \E l \in {Strip(budget.text[nread + 1])} :
          /\ line' = l
          /\ AppProcessLine(l)
    /\ nread' = nread + 1
    /\ UNCHANGED <<path, budget, pc, result, error, nother, historyVars, cdfVars, callerVars>>

\* call 2 is past the loop: it returns the mapping, or raises
AppFinish ==
    /\ running = 2
    /\ pc = "read"
    /\ nread = budget.lines
    /\ IF AppBuildRaises(functions)
       THEN /\ pc' = "raised"
            /\ error' = Exception("OverflowError", FALSE, "Python int too large to convert to C long")
            /\ UNCHANGED result
       ELSE /\ pc' = "done"
            /\ result' = AppBuildResult(functions)
            /\ UNCHANGED error
    /\ UNCHANGED <<path, budget, nread, nother, line, current_function, current_scan, current_rt, functions>>
    /\ UNCHANGED <<historyVars, cdfVars, callerVars>>

SideLines ==
    {L_function1, L_function2, L_scan1, L_scanHuge, L_rt050, L_rtBad, L_data1, L_data2,
     L_badNumber, L_blank}

SideInit ==
    /\ \E p \in AsciiPaths, text \in TextsUpTo(SideLines, MaxSideLines) :
          /\ path = p
          /\ budget = TextFrame(p, text).budget
          /\ parked = (2 :> TextFrame(p, text))
    /\ running = 1
    /\ merged = <<>>
    /\ switches = 0
    /\ NoDesk
    /\ pc = "read"
    /\ nread = 0 /\ nother = 0 /\ line = <<>>
    /\ current_function = None /\ current_scan = None /\ current_rt = None
    /\ functions = EmptyMapping /\ result = EmptyMapping /\ error = NoError
    /\ env = NoEnv /\ file = NoFile /\ ds = "none" /\ arrays = NoArrays /\ i = 0 /\ rows = <<>>
    /\ h_gate = [func |-> FALSE, scan |-> FALSE, rt |-> FALSE, early |-> FALSE]
    /\ h_acc = EmptyMapping
    /\ h_shape = [at |-> "start", k |-> 0]
    /\ h_pair = [ok |-> TRUE, pending |-> None, decl |-> EmptyMapping]
    /\ h_sort = [ok |-> TRUE, last |-> EmptyMapping]
    /\ selected_raw_files = <<>> /\ output_directory = None /\ loaded_data = <<>>
    /\ messages = <<>> /\ csv_dir = <<>> /\ csv_selected = <<>> /\ gpc = "call" /\ pos = 0
    /\ h_latest = <<>> /\ h_outcome = <<>> /\ h_exported = <<>>

\* the call that runs, and the one that waits
Other == 3 - running

\* the two calls have gone equally far
Abreast == nread = parked[Other].nread /\ pc = parked[Other].pc

\* call 1 has read a line, or returned: it waits and call 2 goes on
TurnToApp ==
    /\ running = 1
    /\ ~Abreast
    /\ parked' = (1 :> Frame)
    /\ Resume(parked[2])
    /\ running' = 2
    /\ UNCHANGED <<env, merged, switches, guiVars, deskVars>>

\* call 2 has read the line too: it waits and call 1 goes on
TurnToParser ==
    /\ running = 2
    /\ Abreast
    /\ pc = "read"
    /\ parked' = (2 :> Frame)
    /\ Resume(parked[1])
    /\ running' = 1
    /\ UNCHANGED <<env, merged, switches, guiVars, deskVars>>

SideNext ==
    \/ running = 1 /\ Abreast /\ ReadTextLine
    \/ running = 1 /\ Abreast /\ EndOfText
    \/ TurnToApp
    \/ AppReadLine /\ ~Abreast
    \/ AppFinish /\ ~Abreast
    \/ TurnToParser

SpecSideBySide == SideInit /\ [][SideNext]_vars

(***************************************************************************)
(* Claims about parse_ascii.                                                *)
(***************************************************************************)
RowsOf(f, k) == IF k \in DOMAIN f THEN f[k] ELSE <<>>
AllSeen == h_gate.func /\ h_gate.scan /\ h_gate.rt

\* C1: parse_ascii never raises on file content: whatever lines it has read it returns a
\* mapping, and the mapping is empty when no line was accepted as a data row.
C1_NeverRaises ==
    /\ pc # "raised"
    /\ (pc = "done" /\ (\A k \in DOMAIN h_acc : h_acc[k].acc = 0)) => result = EmptyMapping

\* C2: a step of the line loop appends a row only if a FUNCTION header has been read and,
\* since the most recent one, both a Scan and a Retention Time header; the row it appends
\* is the numeric pair line read in that very step (nothing is buffered and emitted later),
\* and the other lists stay as they are.
C2_RowsOnlyAfterHeaders ==
    [][\A k \in DOMAIN functions' :
          \/ functions'[k] = RowsOf(functions, k)
          \/ /\ AllSeen
             /\ LineKind(line') = "pair"
             /\ Len(functions'[k]) = Len(RowsOf(functions, k)) + 1
             /\ SubSeq(functions'[k], 1, Len(functions'[k]) - 1) = RowsOf(functions, k)
             /\ functions'[k][Len(functions'[k])][3] = Val(PyFloat(Split(line')[1]))
             /\ functions'[k][Len(functions'[k])][4] = Val(PyFloat(Split(line')[2]))
             /\ \A o \in DOMAIN functions' \ {k} : functions'[o] = RowsOf(functions, o)]_vars

\* a numeric pair line came before the headers and was dropped; later lines were accepted
C2_Witness ==
    /\ pc = "done"
    /\ h_gate.early
    /\ \E k \in DOMAIN result : Len(result[k]) = h_acc[k].acc /\ h_acc[k].acc > 0

\* C3: the rows of every occurrence of a function number accumulate under its one label:
\* no step removes a label or changes a row already there, the list of a label is as long
\* as the number of pair lines accepted in all the occurrences so far, and so is the
\* returned table.
C3_OccurrencesAccumulate ==
    [][/\ \A k \in DOMAIN functions :
             /\ k \in DOMAIN functions'
             /\ Len(functions'[k]) >= Len(functions[k])
             /\ SubSeq(functions'[k], 1, Len(functions[k])) = functions[k]
       /\ DOMAIN functions' = DOMAIN h_acc'
       /\ \A k \in DOMAIN functions' : Len(functions'[k]) = h_acc'[k].acc
       /\ pc' = "done" =>
             \A k \in DOMAIN h_acc' :
                 h_acc'[k].acc > 0 => k \in DOMAIN result' /\ Len(result'[k]) = h_acc'[k].acc]_vars

\* a label whose FUNCTION header came twice, with rows accepted in both occurrences
C3_Witness ==
    /\ pc = "done"
    /\ \E k \in DOMAIN result :
          /\ 0 < h_acc[k].prev
          /\ h_acc[k].prev < h_acc[k].acc
          /\ Len(result[k]) = h_acc[k].acc

SameScanSameRt(df) ==
    \A a, b \in 1..Len(df) : df[a].Scan = df[b].Scan => df[a].RetentionTime = df[b].RetentionTime

\* C4 as stated: in every returned table the rows that carry the same Scan carry the same
\* Retention Time, for every ordering of the headers.
C4_Original == pc = "done" => \A k \in DOMAIN result : SameScanSameRt(result[k])

\* C4 as amended: when every Scan header comes with its own Retention Time header right
\* after it and no label declares a scan number twice, every row's Retention Time is the
\* one declared for the row's Scan, and rows with the same Scan carry the same Retention Time.
C4_DeclaredRetentionTime ==
    (pc = "done" /\ h_pair.ok) =>
        \A k \in DOMAIN result :
            /\ \A a \in 1..Len(result[k]) :
                  <<result[k][a].Scan, result[k][a].RetentionTime>> \in h_pair.decl[k]
            /\ SameScanSameRt(result[k])

\* a table with rows of two scans that were declared with two retention times
C4_Witness ==
    /\ pc = "done"
    /\ h_pair.ok
    /\ \E k \in DOMAIN result : \E a, b \in 1..Len(result[k]) :
          /\ result[k][a].Scan # result[k][b].Scan
          /\ result[k][a].RetentionTime # result[k][b].RetentionTime

ScanNonDecreasing(df) ==
    \A a, b \in 1..Len(df) : a < b => IntLe(df[a].Scan, df[b].Scan)

\* C5 as stated: in every returned table the Scan values are non-decreasing in table
\* order, whatever numbers the Scan headers carry.
C5_Original == pc = "done" => \A k \in DOMAIN result : ScanNonDecreasing(result[k])

\* C5 as amended: the Scan values of a returned table are non-decreasing in table order
\* when the Scan headers of its function carried non-decreasing numbers in file order.
C5_SortedHeadersSortedRows ==
    (pc = "done" /\ h_sort.ok) => \A k \in DOMAIN result : ScanNonDecreasing(result[k])

\* a table with rows of two scans, from Scan headers that came in order
C5_Witness ==
    /\ pc = "done"
    /\ h_sort.ok
    /\ \E k \in DOMAIN result : \E a, b \in 1..Len(result[k]) : result[k][a].Scan # result[k][b].Scan

\* C6: for an input of exactly one FUNCTION header, one Scan header and one Retention Time
\* header followed by k >= 1 numeric pair lines (blank lines anywhere), the call returns
\* the function's table with exactly k rows, all with the same Scan and Retention Time.
C6_OneBlockKRows ==
    (pc # "read" /\ h_shape.at = "fsr" /\ h_shape.k >= 1) =>
        /\ pc = "done"
        /\ DOMAIN result = DOMAIN h_acc
        /\ \A k \in DOMAIN result :
              /\ Len(result[k]) = h_shape.k
              /\ \A a, b \in 1..Len(result[k]) :
                    /\ result[k][a].Scan = result[k][b].Scan
                    /\ result[k][a].RetentionTime = result[k][b].RetentionTime

\* the same, for the calls that return
C6_OneBlockKRowsReturned ==
    (pc = "done" /\ h_shape.at = "fsr" /\ h_shape.k >= 1) => C6_OneBlockKRows

(***************************************************************************)
(* Claims about parse_cdf.                                                  *)
(***************************************************************************)
Located(names) == \E k \in 1..Len(names) : names[k] \in DOMAIN file.vars

\* a required logical field has none of its accepted names in the file
FieldMissing ==
    \/ ~Located(<<"scan_index">>)
    \/ ~Located(<<"point_count">>)
    \/ ~Located(MassNames)
    \/ ~Located(IntensityNames)
    \/ ~Located(RtNames)

\* C7: once the dataset is open and the lookup has run, a file in which a required logical
\* field cannot be located has made the call raise ValueError, and no table is returned.
C7_MissingFieldFails ==
    (ds # "none" /\ pc # "lookup" /\ FieldMissing) =>
        /\ pc = "raised"
        /\ error.type = "ValueError"
        /\ result = EmptyMapping

\* the call has failed on a file that holds neither intensity_values nor intensity
C7_Witness ==
    /\ pc = "raised"
    /\ error.type = "ValueError"
    /\ ~Located(IntensityNames)
    /\ Located(<<"scan_index">>) /\ Located(<<"point_count">>)
    /\ Located(MassNames) /\ Located(RtNames)
    /\ result = EmptyMapping

\* C8, for the failures that arise during per-scan row building: the failure surfaces as
\* one ValueError that identifies the file and the underlying cause, and no table is returned.
C8_RowBuildingFailureWrapped ==
    (pc = "raised" /\ arrays # NoArrays) =>
        /\ error.type = "ValueError"
        /\ error.names_file
        /\ error.cause # "none"
        /\ result = EmptyMapping

\* C8, for the failures that arise in the variable lookup
C8_LookupFailureWrapped ==
    (pc = "raised" /\ ds = "closed") =>
        /\ error.type = "ValueError"
        /\ error.names_file
        /\ error.cause # "none"
        /\ result = EmptyMapping

\* C9: no end state of a call leaves the dataset handle open.
C9_HandleClosedOnExit == pc \in {"done", "raised"} => ds # "open"

\* the label a CDF file named scan7.cdf must get
W_scan7_Function_1 == <<"s", "c", "a", "n", "7", "_", "F", "u", "n", "c", "t", "i", "o", "n", "_", "1">>

\* C10: every call that returns, returns a mapping with exactly one entry, under the label
\* <basename>_Function_1, also when the file has no scans or only scans without points.
C10_OneEntry ==
    pc = "done" =>
        /\ DOMAIN result = {W_scan7_Function_1}
        /\ Len(result[W_scan7_Function_1]) = Len(rows)

\* a call has returned the one table, empty, for a file whose scans all have no points
C10_Witness ==
    /\ pc = "done"
    /\ Len(arrays.scan_index) > 0
    /\ DOMAIN result = {W_scan7_Function_1}
    /\ result[W_scan7_Function_1] = <<>>

(***************************************************************************)
(* Claims about the rows parse_cdf builds.                                  *)
(***************************************************************************)
CdfTable == result[CdfKey]
ScansOf(df) == {df[a].Scan : a \in 1..Len(df)}
ScanBlock(df, s) == SelectSeq(df, LAMBDA r : r.Scan = s)
NScans == Len(arrays.scan_index)

\* the positions of scan k (0-based) that lie inside both value arrays
Positions(k) ==
    {p \in arrays.scan_index[k + 1]..(arrays.scan_index[k + 1] + arrays.point_count[k + 1] - 1) :
        p >= 0 /\ p < Len(arrays.mass_values) /\ p < Len(arrays.intensity_values)}

\* the offset is not negative and the slice ends inside both value arrays
InBounds(k) ==
    /\ arrays.scan_index[k + 1] >= 0
    /\ arrays.scan_index[k + 1] + arrays.point_count[k + 1] <= Len(arrays.mass_values)
    /\ arrays.scan_index[k + 1] + arrays.point_count[k + 1] <= Len(arrays.intensity_values)

FirstPresent(names) ==
    IF names[1] \in DOMAIN file.vars THEN names[1]
    ELSE IF names[2] \in DOMAIN file.vars \/ Len(names) = 2 THEN names[2]
    ELSE names[3]

RtOf(k) == IF k < Len(arrays.rt_vals) THEN FloatOf(arrays.rt_vals[k + 1]) ELSE 0

\* C13: for every scan i whose offset is not negative and whose slice lies within both
\* value arrays, the returned table holds exactly point_count[i] rows for scan i, one per
\* position of the slice in increasing position, each (i+1, rt_i, channel[p], intensity[p]);
\* the rows of a scan precede those of the next.
C13_RowsOfSlice ==
    pc = "done" =>
        /\ ScanNonDecreasing(CdfTable)
        /\ \A k \in 0..(NScans - 1) :
              InBounds(k) =>
                 /\ Len(ScanBlock(CdfTable, DigitsOf(k + 1))) = arrays.point_count[k + 1]
                 /\ \A q \in 1..arrays.point_count[k + 1] :
                       ScanBlock(CdfTable, DigitsOf(k + 1))[q] =
                          [Scan |-> DigitsOf(k + 1),
                           RetentionTime |-> RtOf(k),
                           Channel |-> FloatOf(arrays.mass_values[arrays.scan_index[k + 1] + q]),
                           Intensity |-> FloatOf(arrays.intensity_values[arrays.scan_index[k + 1] + q])]

\* two scans within bounds, of two points and of one, the second at a non-zero offset
C13_Witness ==
    /\ pc = "done"
    /\ NScans = 2
    /\ InBounds(0) /\ InBounds(1)
    /\ arrays.point_count = <<2, 1>>
    /\ arrays.scan_index[2] > 0
    /\ Len(CdfTable) = 3

\* C14: every row of scan i carries retention_times[i] when i is within the retention
\* array and 0.0 otherwise; a scan beyond the retention array keeps all its rows, and the
\* scan loop fails only on the length array, never on the retention array.
C14_RetentionFallback ==
    /\ pc = "done" =>
          \A k \in 0..(NScans - 1) :
              /\ Len(ScanBlock(CdfTable, DigitsOf(k + 1))) = Cardinality(Positions(k))
              /\ \A a \in 1..Len(CdfTable) :
                    CdfTable[a].Scan = DigitsOf(k + 1) => CdfTable[a].RetentionTime = RtOf(k)
    /\ (pc = "raised" /\ ds = "open") => Len(arrays.point_count) < NScans

\* a retention array one shorter than the scans: the last scan's rows are there, with 0.0
C14_Witness ==
    /\ pc = "done"
    /\ NScans > 0
    /\ Len(arrays.rt_vals) < NScans
    /\ \E a \in 1..Len(CdfTable) :
          CdfTable[a].Scan = DigitsOf(NScans) /\ CdfTable[a].RetentionTime = 0
    /\ NScans = 2 => \E a \in 1..Len(CdfTable) : CdfTable[a].RetentionTime # 0

(***************************************************************************)
(* Claims about the mapping parse_ascii returns.                            *)
(***************************************************************************)
\* C15: every table of the returned mapping has at least one row, and a label whose
\* FUNCTION headers were followed by no accepted data line in any occurrence has no entry.
C15_NoEmptyTable ==
    pc = "done" =>
        /\ \A k \in DOMAIN result : Len(result[k]) >= 1
        /\ \A k \in DOMAIN h_acc : h_acc[k].acc = 0 => k \notin DOMAIN result

\* a file with two functions, one of them without any accepted data line
C15_Witness ==
    /\ pc = "done"
    /\ \E k \in DOMAIN h_acc : h_acc[k].acc = 0 /\ k \notin DOMAIN result
    /\ \E k \in DOMAIN h_acc : h_acc[k].acc > 0 /\ k \in DOMAIN result

(***************************************************************************)
(* Claims about the batch and the registry.                                 *)
(***************************************************************************)
Row(scan, rt, channel, intensity) ==
    [Scan |-> scan, RetentionTime |-> rt, Channel |-> channel, Intensity |-> intensity]

W_run1_Function_1 == <<"r", "u", "n", "1", "_", "F", "u", "n", "c", "t", "i", "o", "n", "_", "1">>
W_run2_Function_1 == <<"r", "u", "n", "2", "_", "F", "u", "n", "c", "t", "i", "o", "n", "_", "1">>
W_run2_Function_2 == <<"r", "u", "n", "2", "_", "F", "u", "n", "c", "t", "i", "o", "n", "_", "2">>

\* what a call on each file of the disk returns when it is the only call ever made
ReturnsAlone ==
    (P_a_run1_txt :> (W_run1_Function_1 :> <<Row(<<"1">>, 500, 100000, 250000)>>))
    @@ (P_b_run1_TXT :> (W_run1_Function_1 :> <<Row(<<"2">>, 700, 101500, 300000),
                                                 Row(<<"2">>, 700, 100000, 250000)>>))
    @@ (P_a_run2_txt :> ((W_run2_Function_2 :> <<Row(<<"1">>, 500, 101500, 300000)>>)
                         @@ (W_run2_Function_1 :> <<Row(<<"2">>, 700, 100000, 250000)>>)))
    @@ (P_a_run1_cdf :> (W_run1_Function_1 :> <<Row(<<"1">>, 10000, 100000, 500000),
                                                 Row(<<"2">>, 11000, 101000, 501000),
                                                 Row(<<"2">>, 11000, 102000, 502000)>>))

\* the exception a call on each of the other files raises when it is the only call
RaisesAlone ==
    (P_a_huge_txt :> "OverflowError") @@ (P_a_bad_cdf :> "ValueError")
    @@ (P_a_short_cdf :> "IndexError")

OutcomeAlone(p) ==
    IF p \in DOMAIN ReturnsAlone THEN "ok"
    ELSE IF p \in DOMAIN RaisesAlone THEN "failed"
    ELSE "unsupported"

\* C16: throughout a batch the registry holds, under every label, the whole table of the
\* most recent successful parse that produced the label, and nothing of an earlier one.
C16_LastWriteWins ==
    csv_selected = <<>> =>
        /\ DOMAIN loaded_data = DOMAIN h_latest
        /\ \A k \in DOMAIN loaded_data : loaded_data[k] = h_latest[k]

\* two files gave run1_Function_1; the registry holds the second one's two rows
C16_Witness ==
    /\ gpc = "finished"
    /\ selected_raw_files = <<P_a_run1_txt, P_b_run1_TXT>>
    /\ loaded_data = ReturnsAlone[P_b_run1_TXT]
    /\ loaded_data # ReturnsAlone[P_a_run1_txt]

\* C17: the loop deals with every selected file in order, whatever fails: a failing file
\* leaves one error message naming it and no table, the files after it are parsed and merged
\* as they would be alone, and the tables merged before it stay.
C17_BatchContinues ==
    /\ Len(h_outcome) = pos
    /\ gpc = "finished" => pos = Len(selected_raw_files)
    /\ \A n \in 1..pos : h_outcome[n] = OutcomeAlone(selected_raw_files[n])
    /\ gpc \in {"loop", "finished"} =>
          /\ Cardinality({m \in 1..Len(messages) : messages[m].kind = "error"})
                = Cardinality({n \in 1..pos : h_outcome[n] = "failed"})
          /\ \A n \in 1..pos :
                h_outcome[n] = "failed" =>
                    \E m \in 1..Len(messages) :
                        /\ messages[m].kind = "error"
                        /\ messages[m].about = PathBasename(selected_raw_files[n])
    /\ csv_selected = <<>> =>
          \A k \in DOMAIN loaded_data :
              \E n \in 1..pos :
                  /\ h_outcome[n] = "ok"
                  /\ k \in DOMAIN ReturnsAlone[selected_raw_files[n]]
                  /\ loaded_data[k] = ReturnsAlone[selected_raw_files[n]][k]
                  /\ \A later \in (n + 1)..pos :
                        h_outcome[later] = "ok" => k \notin DOMAIN ReturnsAlone[selected_raw_files[later]]
    /\ csv_selected = <<>> =>
          \A n \in 1..pos :
              h_outcome[n] = "ok" => DOMAIN ReturnsAlone[selected_raw_files[n]] \subseteq DOMAIN loaded_data

\* a good file, a failing file, a good file: both good tables are in the registry
C17_Witness ==
    /\ gpc = "finished"
    /\ selected_raw_files = <<P_a_run1_txt, P_a_short_cdf, P_a_run2_txt>>
    /\ h_outcome = <<"ok", "failed", "ok">>
    /\ DOMAIN loaded_data = {W_run1_Function_1, W_run2_Function_1, W_run2_Function_2}
    /\ Cardinality({m \in 1..Len(messages) : messages[m].kind = "error"}) = 1

\* C18: whatever calls came before it, a decoder call returns the mapping (or raises the
\* exception) that a call on the same path and content returns alone; so two calls on the
\* same file return equal mappings.
C18_CallsArePure ==
    gpc = "call" =>
        /\ pc = "done" => path \in DOMAIN ReturnsAlone /\ result = ReturnsAlone[path]
        /\ pc = "raised" => path \in DOMAIN RaisesAlone /\ error.type = RaisesAlone[path]

\* the third call of a batch has returned, on the file of the first call, after a call on
\* another file that produces the same label
C18_Witness ==
    /\ gpc = "call"
    /\ pc = "done"
    /\ pos = 2
    /\ selected_raw_files = <<P_a_run1_txt, P_b_run1_TXT, P_a_run1_txt>>
    /\ result = ReturnsAlone[P_a_run1_txt]

\* C20: a csv file written for a table and loaded through _load_csv_files registers, under
\* the label the table was exported under, a table with the same rows in the same order and
\* the same Scan, Retention Time, Channel and Intensity values.
C20_CsvRoundTrip ==
    \A n \in 1..Len(csv_selected) :
        Basename(csv_selected[n]) \in DOMAIN h_exported =>
            /\ Basename(csv_selected[n]) \in DOMAIN loaded_data
            /\ loaded_data[Basename(csv_selected[n])] = h_exported[Basename(csv_selected[n])]

\* the csv file of the two-row table of /b/run1.TXT has been loaded
C20_Witness ==
    /\ csv_selected # <<>>
    /\ Basename(csv_selected[1]) = W_run1_Function_1
    /\ W_run1_Function_1 \in DOMAIN h_exported
    /\ h_exported[W_run1_Function_1] = ReturnsAlone[P_b_run1_TXT][W_run1_Function_1]
    /\ loaded_data[W_run1_Function_1] = h_exported[W_run1_Function_1]
    /\ csv_dir[CsvName(W_run1_Function_1)][2] = <<"2", ",", "0", ".", "7", ",", "1", "0", "1", ".", "5", ",", "3", "0", "0", ".", "0">>

(***************************************************************************)
(* Claims about concurrent decoder calls.                                   *)
(***************************************************************************)
\* C19: however the steps of the calls interleave, a call that has returned holds the
\* mapping it returns when run alone (and one that has raised, the same exception), and the
\* registry is at every moment what merging the results of the tasks merged so far, one
\* after the other in the writer's order, gives.
C19_InterleavedCalls ==
    /\ \A t \in Tasks :
          /\ FrameOf(t).pc = "done" =>
                /\ FrameOf(t).path \in DOMAIN ReturnsAlone
                /\ FrameOf(t).result = ReturnsAlone[FrameOf(t).path]
          /\ FrameOf(t).pc = "raised" =>
                /\ FrameOf(t).path \in DOMAIN RaisesAlone
                /\ FrameOf(t).error.type = RaisesAlone[FrameOf(t).path]
    /\ \A n \in 1..Len(merged) :
          DOMAIN ReturnsAlone[FrameOf(merged[n]).path] \subseteq DOMAIN loaded_data
    /\ \A k \in DOMAIN loaded_data :
          \E n \in 1..Len(merged) :
              /\ k \in DOMAIN ReturnsAlone[FrameOf(merged[n]).path]
              /\ loaded_data[k] = ReturnsAlone[FrameOf(merged[n]).path][k]
              /\ \A later \in (n + 1)..Len(merged) :
                    k \notin DOMAIN ReturnsAlone[FrameOf(merged[later]).path]

\* two calls on files that give the same label ran interleaved (three changes of the
\* running task); the second task was merged first
C19_Witness ==
    /\ switches = 3
    /\ merged = <<2, 1>>
    /\ FrameOf(1).path = P_a_run1_txt
    /\ FrameOf(2).path = P_b_run1_TXT
    /\ loaded_data = ReturnsAlone[P_a_run1_txt]

(***************************************************************************)
(* Claims about the labels and the scan numbers of parse_ascii.             *)
(***************************************************************************)
TheText == budget.text
ExampleText == <<L_function1, L_scan1, L_rt050, L_data1, L_data3>>

\* the label the claim expects for a FUNCTION header line of the files drawn
ExpectedLabel(l) ==
    IF l = L_function1 THEN W_run1 \o W_Function_ \o <<"1">>
    ELSE W_run1 \o W_Function_ \o <<"2">>

\* C22: every key of the returned mapping is <basename>_Function_<n> for the number n of a
\* FUNCTION header of the file, the basename being the file name without directory and
\* extension; the example lines give exactly one table, <basename>_Function_1, with the rows
\* (1, 0.50, 100.0, 250.0) and (1, 0.50, 101.5, 300.0) in that order.
C22_LabelsAndExample ==
    pc = "done" =>
        /\ \A k \in DOMAIN result :
              \E m \in 1..Len(TheText) :
                  /\ TheText[m] \in {L_function1, L_function2}
                  /\ k = ExpectedLabel(TheText[m])
        /\ TheText = ExampleText =>
              result = (W_run1 \o W_Function_ \o <<"1">>) :>
                          <<[Scan |-> <<"1">>, RetentionTime |-> 500,
                             Channel |-> 100000, Intensity |-> 250000],
                            [Scan |-> <<"1">>, RetentionTime |-> 500,
                             Channel |-> 101500, Intensity |-> 300000]>>

\* the example file has been parsed and its one table returned
C22_Witness ==
    /\ pc = "done"
    /\ TheText = ExampleText
    /\ Cardinality(DOMAIN result) = 1

\* C23: every row of every returned table has Scan >= 1, for ASCII input whatever number
\* the Scan header carries, 0 included.
C23_ScanPositive ==
    pc = "done" =>
        \A k \in DOMAIN result : \A a \in 1..Len(result[k]) : NatOf(result[k][a].Scan, 0) >= 1

(***************************************************************************)
(* Claims about the steps of parse_ascii's line loop, told from the text of *)
(* the line read in the step.                                               *)
(***************************************************************************)
Stepped == nread' = nread + 1

\* the number a FUNCTION or Scan header line of the lines drawn carries
NumberOn(l) ==
    CASE l = L_function1 -> <<"1">>
      [] l = L_function2 -> <<"2">>
      [] l = L_scan0 -> <<"0">>
      [] l = L_scan1 -> <<"1">>
      [] l = L_scan2 -> <<"2">>
      [] l = L_scanHuge -> T_huge

FunctionHeaders == {L_function1, L_function2}
ScanHeaders == {L_scan1, L_scan2, L_scanHuge}
RtHeaders == {L_rt050, L_rt07}
\* the lines of two numeric tokens, as strip() leaves them, and their values
PairLines == {L_data1, Strip(L_data2)}
PairOn(l) == IF l = L_data1 THEN <<100000, 250000>> ELSE <<101500, 300000>>
ExpectedKey(n) == W_run1 \o W_Function_ \o n

\* C24: every FUNCTION header line, a repeat of the current number too, sets
\* current_function to its number, clears current_scan and current_rt and makes sure the
\* label has an entry, leaving the rows stored under every label as they are; a data line
\* read after it and before a new Scan and a new Retention Time header appends nothing.
C24_FunctionHeaderClears ==
    [][/\ (Stepped /\ line' \in FunctionHeaders) =>
             /\ current_function' = Some(NumberOn(line'))
             /\ current_scan' = None
             /\ current_rt' = None
             /\ DOMAIN functions' = DOMAIN functions \cup {ExpectedKey(NumberOn(line'))}
             /\ \A k \in DOMAIN functions' : functions'[k] = RowsOf(functions, k)
       /\ (Stepped /\ line' \in PairLines /\ ~(h_gate.scan /\ h_gate.rt)) =>
             functions' = functions]_vars

\* the header of the function that is current, and has rows, was read again
C24_Witness ==
    /\ pc = "read"
    /\ line = L_function1
    /\ DOMAIN h_acc = {ExpectedKey(<<"1">>)}
    /\ h_acc[ExpectedKey(<<"1">>)].prev > 0
    /\ functions[ExpectedKey(<<"1">>)] # <<>>
    /\ current_scan = None

\* C25: a line that is no header appends a row only when function, scan and retention time
\* are all set and the line is two numeric tokens; every other such line (one token, three
\* tokens, a token that is no number, a pair that comes too early) and every blank line
\* leaves current_function, current_scan, current_rt and all the lists as they are.
C25_OnlyReadyPairsAppend ==
    [][(Stepped /\ line' \notin (FunctionHeaders \cup ScanHeaders \cup RtHeaders)) =>
          /\ UNCHANGED <<current_function, current_scan, current_rt>>
          /\ IF line' \in PairLines /\ current_function # None /\ current_scan # None
                /\ current_rt # None
             THEN \E k \in DOMAIN functions' :
                     /\ functions'[k] = Append(RowsOf(functions, k),
                                               <<Val(current_scan), Val(current_rt),
                                                 PairOn(line')[1], PairOn(line')[2]>>)
                     /\ \A o \in DOMAIN functions' \ {k} : o \in DOMAIN functions
                                                           /\ functions'[o] = functions[o]
             ELSE functions' = functions]_vars

\* a line of three tokens was read, and dropped, while the three were set and rows were there
C25_Witness ==
    /\ pc = "read"
    /\ line = L_threeTokens
    /\ current_function # None /\ current_scan # None /\ current_rt # None
    /\ \E k \in DOMAIN functions : functions[k] # <<>>

\* C26: a Retention Time header line whose value does not parse as a float leaves
\* current_rt unset, so that the data lines after it are dropped until a Retention Time
\* header with a value that parses.
C26_BadRtUnsets ==
    [][(Stepped /\ line' = L_rtBad) => current_rt' = None]_vars

\* C27: a Scan header line is taken in every state of the parser and sets current_scan to
\* its number, changing nothing else; a row appended later carries the scan id in force at
\* its line, and the rows already there keep theirs.
C27_ScanHeaderOverwrites ==
    [][/\ (Stepped /\ line' \in ScanHeaders) =>
             /\ current_scan' = Some(NumberOn(line'))
             /\ UNCHANGED <<current_function, current_rt, functions>>
       /\ \A k \in DOMAIN functions' :
             /\ SubSeq(functions'[k], 1, Len(RowsOf(functions, k))) = RowsOf(functions, k)
             /\ \A a \in (Len(RowsOf(functions, k)) + 1)..Len(functions'[k]) :
                    /\ current_scan # None
                    /\ functions'[k][a][1] = Val(current_scan)
                    /\ current_scan' = current_scan]_vars

\* a Scan header was taken before any FUNCTION header, after a Retention Time header
C27_Witness ==
    /\ pc = "read"
    /\ line \in ScanHeaders
    /\ current_function = None
    /\ current_scan = Some(NumberOn(line))
    /\ current_rt # None

\* C28: a table is the sequence of all the accepted pair lines of its function in file
\* order: an accepted line adds its row at the end of its function's list, also when an
\* equal row is already there, and the returned table has the rows of the list, in order.
C28_RowsInFileOrder ==
    [][/\ (Stepped /\ line' \in PairLines /\ AllSeen) =>
             /\ ExpectedKey(Val(current_function)) \in DOMAIN functions
             /\ functions' = [functions EXCEPT ![ExpectedKey(Val(current_function))] =
                                 Append(@, <<Val(current_scan), Val(current_rt),
                                             PairOn(line')[1], PairOn(line')[2]>>)]
       /\ pc' = "done" =>
             /\ DOMAIN result' = {k \in DOMAIN functions : functions[k] # <<>>}
             /\ \A k \in DOMAIN result' :
                   /\ Len(result'[k]) = Len(functions[k])
                   /\ \A a \in 1..Len(functions[k]) :
                         <<result'[k][a].Scan, result'[k][a].RetentionTime,
                           result'[k][a].Channel, result'[k][a].Intensity>> = functions[k][a]]_vars

\* a returned table holds two equal rows, from the same line read twice in one scan
C28_Witness ==
    /\ pc = "done"
    /\ \E k \in DOMAIN result : \E a \in 1..(Len(result[k]) - 1) : result[k][a] = result[k][a + 1]

(***************************************************************************)
(* Claims about the choice of the decoder.                                  *)
(***************************************************************************)
\* C29: the batch hands every selected ASCII text file to the ASCII decoder, whatever its
\* extension, and every .cdf file to the binary decoder: no ASCII file is passed over as
\* unsupported because of its extension.
C29_AsciiAnyExtension ==
    /\ \A n \in 1..Len(h_outcome) :
          selected_raw_files[n] \in DOMAIN AsciiDisk \cup DOMAIN CdfDisk =>
              h_outcome[n] # "unsupported"
    /\ gpc = "call" =>
          /\ path \in DOMAIN AsciiDisk => pc \in {"read", "done", "raised"} /\ ds = "none"
          /\ path \in DOMAIN CdfDisk => pc \in {"open", "lookup", "scan", "done", "raised"}

(***************************************************************************)
(* Claims about the tables of the registry and the import of csv files.     *)
(***************************************************************************)
\* C21: rows are immutable once produced: a step changes the table stored under a label
\* only by storing a table anew (a parse that returns the label, an import of csv files);
\* find, replace and the other operations leave every value of every row as it is.
C21_RowsImmutable ==
    [][\A k \in DOMAIN loaded_data :
          /\ k \in DOMAIN loaded_data'
          /\ loaded_data'[k] # loaded_data[k] =>
                \/ gpc = "call" /\ pc = "done" /\ k \in DOMAIN result
                \/ csv_selected' # csv_selected]_vars

\* the name and the stem of a file of the csv directory, from its path
NameOf(p) == Drop(p, Len(W_out) + Len(W_csv_dir))
StemOf(p) == SubSeq(NameOf(p), 1, Len(NameOf(p)) - Len(W_dot_csv))

\* a csv text that can be read and names the four required columns, in any case
Conforms(text) ==
    /\ text # <<>>
    /\ \A want \in {LowerStr(W_Scan), LowerStr(W_RetentionTime), LowerStr(W_Channel),
                    LowerStr(W_Intensity)} :
          \E c \in 1..Len(SplitOn(text[1], ",")) : LowerStr(SplitOn(text[1], ",")[c]) = want

Ended == pc \in {"done", "raised"}
IsAsciiCall == path \in AsciiPaths
IsCdfCall == path \in CdfPaths
\* n_scans, told from the file: the length of its scan_index variable
ScansInFile == Len(file.vars["scan_index"])

\* C31: every decoder call terminates.  A call of parse_ascii on a finite file reaches its
\* return or raises; until then every step consumes the file's next line, one line further
\* than the step before, and the call ends only when all the lines have been consumed, each
\* once.  A call of parse_cdf raises or returns; the scan loop's index only ever advances by
\* one, rows are built only by an iteration, and the call returns after exactly n_scans
\* iterations.
C31_CallsTerminate ==
    /\ <>Ended
    /\ [][IsAsciiCall /\ ~Ended =>
              \/ /\ nread < Len(TheText)
                 /\ nread' = nread + 1
                 /\ line' = TheText[nread + 1]
                 /\ ~Ended'
              \/ /\ nread = Len(TheText)
                 /\ nread' = nread
                 /\ Ended']_vars
    /\ [](IsAsciiCall /\ Ended => nread = Len(TheText))
    /\ [][IsCdfCall =>
              /\ i' \in {i, i + 1}
              /\ rows' # rows => i' = i + 1
              /\ i' = i + 1 => i < ScansInFile /\ pc = "scan"]_vars
    /\ [](IsCdfCall /\ pc = "done" => i = ScansInFile)

\* a file of MaxCallLines lines has been read to its end and tables were returned
C31_Witness ==
    /\ IsAsciiCall /\ pc = "done"
    /\ nread = MaxCallLines
    /\ result # EmptyMapping

(***************************************************************************)
(* Claims about what the headers of a fixed file leave alone.               *)
(***************************************************************************)
TextScanHeaders == {L_scan0, L_scan1}
TextPairLines == {L_data1, L_data3}

\* the position of the last line of S before line p of the file, 0 when there is none
LastOf(p, S) ==
    IF \E m \in 1..(p - 1) : TheText[m] \in S
    THEN CHOOSE m \in 1..(p - 1) : TheText[m] \in S /\ \A n \in (m + 1)..(p - 1) : TheText[n] \notin S
    ELSE 0

\* line p comes, inside a function, after a Retention Time header and a later Scan header
ScanAfterRt(p) ==
    /\ LastOf(p, FunctionHeaders) > 0
    /\ LastOf(p, {L_rt050}) > LastOf(p, FunctionHeaders)
    /\ LastOf(p, TextScanHeaders) > LastOf(p, {L_rt050})

\* C32: a Scan header changes current_scan and nothing else, a Retention Time header changes
\* current_rt and nothing else; a pair line that follows, inside a function, a Scan header
\* that came after the last Retention Time header is appended under the function's label
\* with the number of that Scan header and the retention time of that earlier header.
C32_ScanKeepsRetentionTime ==
    [][Stepped =>
          /\ line' \in TextScanHeaders =>
                /\ current_scan' = Some(NumberOn(line'))
                /\ UNCHANGED <<current_function, current_rt, functions>>
          /\ line' = L_rt050 =>
                /\ current_rt' = Some(500)
                /\ UNCHANGED <<current_function, current_scan, functions>>
          /\ (line' \in TextPairLines /\ ScanAfterRt(nread + 1)) =>
                \E key \in {ExpectedKey(NumberOn(TheText[LastOf(nread + 1, FunctionHeaders)]))} :
                    /\ DOMAIN functions' = DOMAIN functions \cup {key}
                    /\ \A k \in DOMAIN functions' \ {key} : functions'[k] = functions[k]
                    /\ functions'[key] =
                          Append(RowsOf(functions, key),
                                 <<NumberOn(TheText[LastOf(nread + 1, TextScanHeaders)]), 500,
                                   PairOn(line')[1], PairOn(line')[2]>>)]_vars

\* FUNCTION 1, Scan 1, Retention Time 0.50, Scan 0, a pair: the row carries scan 0 and 0.50
C32_Witness ==
    /\ pc = "done"
    /\ TheText = <<L_function1, L_scan1, L_rt050, L_scan0, L_data1>>
    /\ result = (ExpectedKey(<<"1">>) :>
                    <<[Scan |-> <<"0">>, RetentionTime |-> 500,
                       Channel |-> 100000, Intensity |-> 250000]>>)

(***************************************************************************)
(* Claims about the headers that come before the first FUNCTION header.     *)
(***************************************************************************)
\* the two calls have both returned
BothReturned == running = 2 /\ pc = "done" /\ parked[1].pc = "done"

\* C33: Scan and Retention Time headers before the first FUNCTION header do not change what
\* is returned: the call on the file and the call on the file without them return the same
\* mapping; and as long as no FUNCTION header has been read, no row is stored.
C33_LeadingHeadersIgnored ==
    /\ BothReturned =>
          /\ budget.text = Trimmed(parked[1].budget.text)
          /\ result = parked[1].result
    /\ (pc = "read" /\ \A m \in 1..nread : TheText[m] # L_function1) =>
          /\ current_function = None
          /\ functions = EmptyMapping

\* Scan 1, Retention Time 0.50, FUNCTION 1, Scan 1, ... : both calls returned, headers
\* were removed, and the mapping returned is not empty
C33_Witness ==
    /\ BothReturned
    /\ Len(budget.text) < Len(parked[1].budget.text)
    /\ result # EmptyMapping

(***************************************************************************)
(* Claims about the table a row goes to, told from the lines of the file.   *)
(***************************************************************************)
\* line p is a pair line read with a FUNCTION header, and after it a Scan and a Retention
\* Time header, before it
AcceptedAt(p) ==
    /\ TheText[p] \in TextPairLines
    /\ LastOf(p, FunctionHeaders) > 0
    /\ LastOf(p, TextScanHeaders) > LastOf(p, FunctionHeaders)
    /\ LastOf(p, {L_rt050}) > LastOf(p, FunctionHeaders)

\* the number of the FUNCTION header line p comes under
FunctionAt(p) == NumberOn(TheText[LastOf(p, FunctionHeaders)])

RowAt(p) ==
    <<NumberOn(TheText[LastOf(p, TextScanHeaders)]), 500, PairOn(TheText[p])[1], PairOn(TheText[p])[2]>>

RECURSIVE RowsUnder(_, _)
\* the rows of the accepted lines among the first p that come under function n, in file order
RowsUnder(p, n) ==
    IF p = 0 THEN <<>>
    ELSE RowsUnder(p - 1, n) \o (IF AcceptedAt(p) /\ FunctionAt(p) = n THEN <<RowAt(p)>> ELSE <<>>)

FunctionNumbers == {<<"1">>, <<"2">>}

\* C34: at every point of the loop the list under <basename>_Function_<n> holds exactly the
\* accepted data lines read so far whose FUNCTION header carries n, in file order, and there
\* are no other labels: no line is lost, stored twice or stored under another function,
\* however the blocks of the functions alternate.  A row is appended only under the label
\* of the value current_function has at that line.  The returned tables hold these rows.
C34_RowsUnderTheirFunction ==
    /\ [](pc \in {"read", "done"} =>
            /\ DOMAIN functions \subseteq {ExpectedKey(n) : n \in FunctionNumbers}
            /\ \A n \in FunctionNumbers :
                  RowsOf(functions, ExpectedKey(n)) = RowsUnder(nread, n))
    /\ [][\A k \in DOMAIN functions' :
              functions'[k] # RowsOf(functions, k) /\ functions'[k] # <<>> =>
                  /\ current_function # None
                  /\ current_function' = current_function
                  /\ k = ExpectedKey(Val(current_function))]_vars
    /\ [](pc = "done" =>
            /\ DOMAIN result = {ExpectedKey(n) : n \in {m \in FunctionNumbers : RowsUnder(nread, m) # <<>>}}
            /\ \A n \in FunctionNumbers :
                  RowsUnder(nread, n) # <<>> =>
                      /\ Len(result[ExpectedKey(n)]) = Len(RowsUnder(nread, n))
                      /\ \A a \in 1..Len(RowsUnder(nread, n)) :
                            result[ExpectedKey(n)][a] =
                                [Scan |-> RowsUnder(nread, n)[a][1],
                                 RetentionTime |-> RowsUnder(nread, n)[a][2],
                                 Channel |-> RowsUnder(nread, n)[a][3],
                                 Intensity |-> RowsUnder(nread, n)[a][4]])

\* function 1, function 2, function 1 again: two rows under one label, one under the other
C34_Witness ==
    /\ pc = "done"
    /\ TheText = <<L_function1, L_scan1, L_rt050, L_data1>>
                    \o <<L_function2, L_scan1, L_rt050, L_data3>>
                    \o <<L_function1, L_scan0, L_rt050, L_data3>>
    /\ Len(result[ExpectedKey(<<"1">>)]) = 2
    /\ Len(result[ExpectedKey(<<"2">>)]) = 1

(***************************************************************************)
(* Claims about the two ASCII decoders of the repository.                   *)
(***************************************************************************)
\* the table of msanalyzer.py's decoder with its third column named as parser.py names it
AsChannel(df) ==
    [ix \in 1..Len(df) |->
        [Scan |-> df[ix].Scan, RetentionTime |-> df[ix].RetentionTime,
         Channel |-> df[ix].mz, Intensity |-> df[ix].Intensity]]

\* C35: stepped side by side over the same lines, parser.py's parse_ascii and msanalyzer.py's
\* parse_ascii hold the same current_function, current_scan and current_rt, and the same
\* row lists, after every line; they end alike (both return, or both raise the same error),
\* and the mappings they return have the same labels and the same rows in the same order,
\* the third column being named Channel in the one and m/z in the other.
C35_DecodersEquivalent ==
    (running = 2 /\ nread = parked[1].nread) =>
        /\ current_function = parked[1].current_function
        /\ current_scan = parked[1].current_scan
        /\ current_rt = parked[1].current_rt
        /\ functions = parked[1].functions
        /\ line = parked[1].line
        /\ pc # "read" =>
              /\ pc = parked[1].pc
              /\ error = parked[1].error
              /\ DOMAIN result = DOMAIN parked[1].result
              /\ \A k \in DOMAIN result :
                    /\ AsChannel(result[k]) = parked[1].result[k]
                    /\ \A ix \in 1..Len(result[k]) :
                          DOMAIN result[k][ix] = {"Scan", "RetentionTime", "mz", "Intensity"}

\* both decoders returned the row of a pair line written with a tab and blanks around it
C35_Witness ==
    /\ running = 2
    /\ pc = "done"
    /\ parked[1].pc = "done"
    /\ TheText = <<L_function2, L_scan1, L_rt050, L_data2>>
    /\ \E k \in DOMAIN result : Len(result[k]) = 1 /\ parked[1].result[k][1].Channel = result[k][1].mz

(***************************************************************************)
(* Claims about the scans whose slice does not fit the value arrays.        *)
(***************************************************************************)
StartOf(k) == arrays.scan_index[k + 1]
CountOf(k) == arrays.point_count[k + 1]

\* the positions of arr, counted from 0, that arr[a:b] takes: a bound below zero is
\* counted from the end, and a bound beyond either end stops there
Taken(arr, a, b) ==
    {p \in 0..(Len(arr) - 1) :
        /\ p >= (IF a < 0 THEN a + Len(arr) ELSE a)
        /\ p < (IF b < 0 THEN b + Len(arr) ELSE b)}

Least(a, b) == IF a < b THEN a ELSE b

\* the rows the step of scan i has added
Added == SubSeq(rows', Len(rows) + 1, Len(rows'))

\* C36: the iteration of scan i adds as many rows as the shorter of the two slices
\* mass_values[start:start+count] and intensity_values[start:start+count] has elements,
\* never more than max(count, 0); the q-th row pairs the q-th element of the one slice with
\* the q-th of the other.  A slice that runs past the end of an array, or arrays of
\* different lengths, only shorten the scan's rows: the iteration goes on to the next scan
\* and raises nothing.
C36_RowsTruncated ==
    [][(pc = "scan" /\ i < Len(arrays.scan_index) /\ i < Len(arrays.point_count)) =>
          LET a == StartOf(i)
              b == StartOf(i) + CountOf(i)
              ch == Taken(arrays.mass_values, a, b)
              it == Taken(arrays.intensity_values, a, b)
              n == Least(Cardinality(ch), Cardinality(it))
          IN  /\ pc' = "scan" /\ i' = i + 1 /\ error' = NoError
              /\ Len(rows') = Len(rows) + n
              /\ SubSeq(rows', 1, Len(rows)) = rows
              /\ n <= (IF CountOf(i) > 0 THEN CountOf(i) ELSE 0)
              /\ \A q \in 1..n :
                    /\ Cardinality({p \in ch : arrays.mass_values[p + 1] <= Added[q][3] \div 1000}) = q
                    /\ Cardinality({p \in it : arrays.intensity_values[p + 1] <= Added[q][4] \div 1000}) = q
                    /\ Added[q][1] = DigitsOf(i + 1)]_vars

(***************************************************************************)
(* Claims about the labels of the registry and the function comboboxes.     *)
(***************************************************************************)
\* the step ends with a refresh of the comboboxes: the end of a batch parse, an import
Refreshes == (gpc = "loop" /\ gpc' = "finished") \/ csv_selected' # csv_selected

\* C37: no step of the window (parse, import of csv files, choice of a function, find,
\* replace) takes a label out of loaded_data; the selection of every function combobox is
\* empty or a label of loaded_data, and a refresh of the comboboxes leaves a selection that
\* is still a label as it was.
C37_LabelsOnlyGrow ==
    [][/\ DOMAIN loaded_data \subseteq DOMAIN loaded_data'
       /\ \A cb \in Comboboxes :
             /\ dropdown'[cb] = <<>> \/ dropdown'[cb] \in DOMAIN loaded_data'
             /\ (Refreshes /\ dropdown[cb] \in DOMAIN loaded_data') => dropdown'[cb] = dropdown[cb]]_vars

\* a function was chosen and values of its table replaced; then an import, which ends with
\* a refresh, stored the table anew from its csv file (no table holds the replacement
\* value any more): a function is still selected
C37_Witness ==
    /\ gpc \in {"idle", "finished"}
    /\ imported.files # <<>>
    /\ dropdown["fr"] \in DOMAIN loaded_data
    /\ fr_result.kind = "replaced"
    /\ fr_result.count > 0
    /\ \A k \in DOMAIN loaded_data, t \in ReplaceTexts :
          Matches(loaded_data[k], Val(PyFloat(t))) = {}

(***************************************************************************)
(* Claims about the export and the plot of the tables of a batch.           *)
(***************************************************************************)
\* the messages the step has added
NewMessages == SubSeq(messages', Len(messages) + 1, Len(messages'))

\* the labels a message of the given kind among msgs is about
About(msgs, kind) == {msgs[m].about : m \in {x \in 1..Len(msgs) : msgs[x].kind = kind}}

\* C38: when a file has been parsed every table it returned is in the registry after the
\* loop over its labels, also the table whose csv write or plot failed; a failure leaves a
\* message naming the label and nothing else: the csv file of every other label of the
\* file is written, the label's own csv file is left as it was, and the batch goes on to
\* the next file, whose tables are stored and written in the same way.  A table that has
\* been written or has failed to be written or plotted is always in the registry.
C38_FailuresKeepTables ==
    /\ [][(gpc = "call" /\ pc = "done") =>
             /\ gpc' = "loop" /\ pos' = pos + 1
             /\ \A k \in DOMAIN result : k \in DOMAIN loaded_data' /\ loaded_data'[k] = result[k]
             /\ \A m \in 1..Len(NewMessages) :
                   NewMessages[m].kind \in {"csv", "plot"} /\ NewMessages[m].about \in DOMAIN result
             /\ SubSeq(messages', 1, Len(messages)) = messages
             /\ \A k \in DOMAIN result \ About(NewMessages, "csv") :
                   CsvName(k) \in DOMAIN csv_dir' /\ csv_dir'[CsvName(k)] = ToCsv(result[k])
             /\ \A k \in About(NewMessages, "csv") :
                   IF CsvName(k) \in DOMAIN csv_dir
                   THEN csv_dir'[CsvName(k)] = csv_dir[CsvName(k)]
                   ELSE CsvName(k) \notin DOMAIN csv_dir']_vars
    /\ [](/\ DOMAIN h_exported \subseteq DOMAIN loaded_data
          /\ About(messages, "csv") \cup About(messages, "plot") \subseteq DOMAIN loaded_data
          /\ gpc = "finished" => pos = Len(selected_raw_files))

\* the csv write of one table of run2.txt failed: its other table was written, both are in
\* the registry, and the table of the next file, run1.txt, was stored and written
C38_Witness ==
    /\ gpc = "finished"
    /\ selected_raw_files = <<P_a_run2_txt, P_a_run1_txt>>
    /\ About(messages, "csv") = {W_run2_Function_1}
    /\ {W_run2_Function_1, W_run2_Function_2, W_run1_Function_1} \subseteq DOMAIN loaded_data
    /\ CsvName(W_run2_Function_1) \notin DOMAIN csv_dir
    /\ csv_dir[CsvName(W_run2_Function_2)] = ToCsv(loaded_data[W_run2_Function_2])
    /\ csv_dir[CsvName(W_run1_Function_1)] = ToCsv(loaded_data[W_run1_Function_1])

====
